---- MODULE Spec2Model ----
(***************************************************************************)
(* Slot-validation and booking-assembly engine of the flight booking bot   *)
(* (src/actions/actions.py).                                               *)
(*                                                                         *)
(* A text is a sequence of tokens.  Where the code looks at characters     *)
(* (digits, dates, phone numbers, e-mail addresses) a token is one         *)
(* character; where it looks at words (place names, passenger names, seat  *)
(* and class keywords) a token is one word, and the token " " is a run of  *)
(* whitespace.  A slot holds None (unset) or Some(v).                      *)
(***************************************************************************)
EXTENDS Integers, Sequences, FiniteSets, TLC

VARIABLES slots, clock, store, last, conv

vars == <<slots, clock, store, last, conv>>

\* ------------------------------------------------------------------ values

None == <<>>
Some(v) == <<v>>
IsSet(o) == o # None
Val(o) == o[1]

\* Python truthiness of a slot holding a text / an integer.
TruthyText(o) == IsSet(o) /\ Val(o) # <<>>
TruthyInt(o) == IsSet(o) /\ Val(o) # 0

SlotNames ==
    {"origin", "destination", "travel_date", "return_date", "class_selection",
     "passenger_name", "travel_count", "expected_passengers",
     "current_passenger_index", "current_passenger_name",
     "current_passenger_phone", "current_passenger_email",
     "current_passenger_seat_preference", "passengers", "no_flights"}

AllUnset == [k \in SlotNames |-> None]

\* The runtime applies a validator's patch to the snapshot: the slots the
\* patch names take its values, the others keep theirs.
ApplyPatch(s, patch) == patch @@ s

NoMsg == [kind |-> "none"]

\* ------------------------------------------------------------- str helpers

\* A whitespace character (or, among words, a run of whitespace).
IsSpace(t) == t \in {" ", "\n"}

RECURSIVE lstrip(_)
lstrip(s) ==
    IF s # <<>> /\ IsSpace(Head(s)) THEN lstrip(Tail(s)) ELSE s

RECURSIVE rstrip(_)
rstrip(s) ==
    IF s # <<>> /\ IsSpace(s[Len(s)]) THEN rstrip(SubSeq(s, 1, Len(s) - 1)) ELSE s

\* str.strip()
strip(s) == rstrip(lstrip(s))

DecimalDigits == {"0", "1", "2", "3", "4", "5", "6", "7", "8", "9"}

\* Characters str.isdigit() accepts and int() does not (superscript digits).
OtherDigits == {"²"}

DigitVal(c) ==
    CASE c = "0" -> 0 [] c = "1" -> 1 [] c = "2" -> 2 [] c = "3" -> 3
      [] c = "4" -> 4 [] c = "5" -> 5 [] c = "6" -> 6 [] c = "7" -> 7
      [] c = "8" -> 8 [] c = "9" -> 9

\* str.isdigit(): non-empty and every character is a digit of any kind.
isdigit(s) ==
    s # <<>> /\ \A i \in 1..Len(s) : s[i] \in DecimalDigits \cup OtherDigits

\* int(s) raises ValueError unless every character is a decimal digit.
IntRaises(s) == s = <<>> \/ \E i \in 1..Len(s) : s[i] \notin DecimalDigits

RECURSIVE IntOf(_)
IntOf(s) ==
    IF s = <<>> THEN 0 ELSE 10 * IntOf(SubSeq(s, 1, Len(s) - 1)) + DigitVal(s[Len(s)])

\* str.lower() on the word vocabulary.
Lower(t) ==
    CASE t \in {"Window", "WINDOW"} -> "window"
      [] t \in {"Aisle", "AISLE"} -> "aisle"
      [] t \in {"Middle", "MIDDLE"} -> "middle"
      [] t \in {"Economy", "ECONOMY"} -> "economy"
      [] t \in {"Business", "BUSINESS"} -> "business"
      [] t \in {"First", "FIRST"} -> "first"
      [] t \in {"From", "FROM"} -> "from"
      [] t \in {"To", "TO"} -> "to"
      [] t \in {"Dhaka", "DHAKA"} -> "dhaka"
      [] t \in {"Seoul", "SEOUL"} -> "seoul"
      [] t \in {"Brisbane", "BRISBANE"} -> "brisbane"
      [] t \in {"Paris", "PARIS"} -> "paris"
      [] t \in {"Exit", "EXIT"} -> "exit"
      [] OTHER -> t

lower(s) == [i \in 1..Len(s) |-> Lower(s[i])]

\* ---------------------------------------------------------- passenger list

\* json.dumps of a list of passenger records: the serialized accumulator.
json_dumps(list) == [json |-> "array", items |-> list]

\* json.loads raises on text that is not JSON.
JsonRaises(doc) == doc.json = "garbage"

json_loads(doc) == doc.items

SEATS == {<<"window">>, <<"aisle">>, <<"middle">>}

\* ------------------------------------------------------- validator results

\* What a validator call yields: the patch it returns and the message it
\* utters, or a fault (an exception leaving the validator; nothing is patched).
Result(patch, msg) == [patch |-> patch, msg |-> msg, fault |-> FALSE]
Fault == [patch |-> <<>>, msg |-> NoMsg, fault |-> TRUE]

\* Mutant: a rejection also starts the passenger loop over.
Reject_restarts_loop(field, msg) ==
    Result((field :> None) @@ ("current_passenger_index" :> Some(1)), msg)

Reject(field, msg) == Result(field :> None, msg)

WorkingFields ==
    {"current_passenger_name", "current_passenger_phone",
     "current_passenger_email", "current_passenger_seat_preference"}

ClearWorking == [k \in WorkingFields |-> None]

\* tracker.get_slot("current_passenger_index") or 1
IdxOr1(s) ==
    IF TruthyInt(s["current_passenger_index"])
    THEN Val(s["current_passenger_index"]) ELSE 1

\* tracker.get_slot("expected_passengers") or 1
ExpectedOr1(s) ==
    IF TruthyInt(s["expected_passengers"])
    THEN Val(s["expected_passengers"]) ELSE 1

\* ------------------------------------------------------------ travel_count

validate_travel_count(value, s) ==
    IF value # <<>> /\ isdigit(strip(value))
    THEN IF IntRaises(strip(value))
         THEN Fault
         ELSE IF IntOf(strip(value)) >= 1
              THEN Result(
                     ("travel_count" :> Some(IntOf(strip(value))))
                     @@ ("expected_passengers" :> Some(IntOf(strip(value))))
                     @@ ("current_passenger_index" :> Some(1))
                     @@ ("passengers" :> Some(json_dumps(<<>>)))
                     @@ ClearWorking,
                     NoMsg)
              ELSE Reject("travel_count", [kind |-> "invalid_travel_count"])
    ELSE Reject("travel_count", [kind |-> "invalid_travel_count"])

\* ------------------------------------------------- per-passenger validators

validate_current_passenger_name(value, s) ==
    IF value # <<>> /\ strip(value) # <<>>
    THEN Result("current_passenger_name" :> Some(strip(value)), NoMsg)
    ELSE Reject("current_passenger_name", [kind |-> "ask_name", idx |-> IdxOr1(s)])

PhoneChars == DecimalDigits \cup {"-", "+", " "}

\* re.fullmatch(r"\+?[1-9]\d{7,14}", value)
PhoneE164(v) ==
    LET d == IF v # <<>> /\ Head(v) = "+" THEN Tail(v) ELSE v
    IN  /\ Len(d) >= 8
        /\ Len(d) <= 15
        /\ d[1] \in DecimalDigits \ {"0"}
        /\ \A i \in 2..Len(d) : d[i] \in DecimalDigits

\* re.fullmatch(r"[0-9\-+ ]{7,15}", value)
PhoneLoose(v) ==
    /\ Len(v) >= 7
    /\ Len(v) <= 15
    /\ \A i \in 1..Len(v) : v[i] \in PhoneChars

validate_current_passenger_phone(value, s) ==
    IF value # <<>> /\ (PhoneE164(value) \/ PhoneLoose(value))
    THEN Result("current_passenger_phone" :> Some(value), NoMsg)
    ELSE Reject("current_passenger_phone", [kind |-> "ask_phone", idx |-> IdxOr1(s)])

\* [^@\s]
EmailChar(c) == c # "@" /\ ~IsSpace(c)

\* re.fullmatch(r"[^@\s]+@[^@\s]+\.[^@\s]+", v)
EmailMatch(v) ==
    \E a \in 2..Len(v) :
        /\ v[a] = "@"
        /\ \A i \in (1..Len(v)) \ {a} : EmailChar(v[i])
        /\ \E dot \in (a + 2)..(Len(v) - 1) : v[dot] = "."

validate_current_passenger_email(value, s) ==
    IF value # <<>> /\ EmailMatch(strip(value))
    THEN Result("current_passenger_email" :> Some(strip(value)), NoMsg)
    ELSE Reject("current_passenger_email", [kind |-> "ask_email", idx |-> IdxOr1(s)])

\* tracker.get_slot("passengers") or "[]", then json.loads with the except.
LoadPassengers(s) ==
    IF ~IsSet(s["passengers"]) THEN <<>>
    ELSE IF JsonRaises(Val(s["passengers"])) THEN <<>>
    ELSE json_loads(Val(s["passengers"]))


\* Mutant: the record is appended whether or not the working fields are set.
AppendCurrent_unguarded(passengers, s, v) ==
    Append(passengers,
           [name |-> IF IsSet(s["current_passenger_name"])
                     THEN Val(s["current_passenger_name"]) ELSE <<>>,
            phone |-> IF IsSet(s["current_passenger_phone"])
                      THEN Val(s["current_passenger_phone"]) ELSE <<>>,
            email |-> IF IsSet(s["current_passenger_email"])
                      THEN Val(s["current_passenger_email"]) ELSE <<>>,
            seat |-> v])

\* Mutant: the new record goes to the front of the list.
AppendCurrent_prepends(passengers, s, v) ==
    IF /\ TruthyText(s["current_passenger_name"])
       /\ TruthyText(s["current_passenger_phone"])
       /\ TruthyText(s["current_passenger_email"])
       /\ v # <<>>
    THEN <<[name |-> Val(s["current_passenger_name"]),
            phone |-> Val(s["current_passenger_phone"]),
            email |-> Val(s["current_passenger_email"]),
            seat |-> v]>> \o passengers
    ELSE passengers

\* Mutant: the record is appended as soon as the name is set.
AppendCurrent_name_only(passengers, s, v) ==
    IF TruthyText(s["current_passenger_name"])
    THEN Append(passengers,
                [name |-> Val(s["current_passenger_name"]),
                 phone |-> IF IsSet(s["current_passenger_phone"])
                           THEN Val(s["current_passenger_phone"]) ELSE <<>>,
                 email |-> IF IsSet(s["current_passenger_email"])
                           THEN Val(s["current_passenger_email"]) ELSE <<>>,
                 seat |-> v])
    ELSE passengers

\* if all([name, phone, email, v]): passengers.append({...})
AppendCurrent(passengers, s, v) ==
    IF /\ TruthyText(s["current_passenger_name"])
       /\ TruthyText(s["current_passenger_phone"])
       /\ TruthyText(s["current_passenger_email"])
       /\ v # <<>>
    THEN Append(passengers,
                [name |-> Val(s["current_passenger_name"]),
                 phone |-> Val(s["current_passenger_phone"]),
                 email |-> Val(s["current_passenger_email"]),
                 seat |-> v])
    ELSE passengers


\* Mutant: the last passenger is handled like the others (index advanced,
\* working fields cleared).
validate_current_passenger_seat_preference_always_advance(value, s) ==
    LET v == strip(lower(value))
        passengers == AppendCurrent(LoadPassengers(s), s, v)
    IN  IF v \in SEATS
        THEN Result(
               ("passengers" :> Some(json_dumps(passengers)))
               @@ ("current_passenger_index" :> Some(IdxOr1(s) + 1))
               @@ ClearWorking,
               [kind |-> "next_passenger", idx |-> IdxOr1(s) + 1])
        ELSE Reject("current_passenger_seat_preference",
                    [kind |-> "ask_seat", idx |-> IdxOr1(s)])

\* Mutant: the loop is over one passenger early.
validate_current_passenger_seat_preference_stops_early(value, s) ==
    LET v == strip(lower(value))
        passengers == AppendCurrent(LoadPassengers(s), s, v)
    IN  IF v \in SEATS
        THEN IF IdxOr1(s) + 1 < ExpectedOr1(s)
             THEN Result(
                    ("passengers" :> Some(json_dumps(passengers)))
                    @@ ("current_passenger_index" :> Some(IdxOr1(s) + 1))
                    @@ ClearWorking,
                    [kind |-> "next_passenger", idx |-> IdxOr1(s) + 1])
             ELSE Result(
                    ("passengers" :> Some(json_dumps(passengers)))
                    @@ ("current_passenger_seat_preference" :> Some(v)),
                    NoMsg)
        ELSE Reject("current_passenger_seat_preference",
                    [kind |-> "ask_seat", idx |-> IdxOr1(s)])

\* Mutant: the last seat starts the count of passengers over.
validate_current_passenger_seat_preference_wraps(value, s) ==
    LET v == strip(lower(value))
        passengers == AppendCurrent(LoadPassengers(s), s, v)
    IN  IF v \in SEATS
        THEN IF IdxOr1(s) < ExpectedOr1(s)
             THEN Result(
                    ("passengers" :> Some(json_dumps(passengers)))
                    @@ ("current_passenger_index" :> Some(IdxOr1(s) + 1))
                    @@ ClearWorking,
                    [kind |-> "next_passenger", idx |-> IdxOr1(s) + 1])
             ELSE Result(
                    ("passengers" :> Some(json_dumps(passengers)))
                    @@ ("current_passenger_index" :> Some(1))
                    @@ ("current_passenger_seat_preference" :> Some(v)),
                    NoMsg)
        ELSE Reject("current_passenger_seat_preference",
                    [kind |-> "ask_seat", idx |-> IdxOr1(s)])

validate_current_passenger_seat_preference(value, s) ==
    LET v == strip(lower(value))
        passengers == AppendCurrent(LoadPassengers(s), s, v)
    IN  IF v \in SEATS
        THEN IF IdxOr1(s) < ExpectedOr1(s)
             THEN Result(
                    ("passengers" :> Some(json_dumps(passengers)))
                    @@ ("current_passenger_index" :> Some(IdxOr1(s) + 1))
                    @@ ClearWorking,
                    [kind |-> "next_passenger", idx |-> IdxOr1(s) + 1])
             ELSE Result(
                    ("passengers" :> Some(json_dumps(passengers)))
                    @@ ("current_passenger_seat_preference" :> Some(v)),
                    NoMsg)
        ELSE Reject("current_passenger_seat_preference",
                    [kind |-> "ask_seat", idx |-> IdxOr1(s)])

\* ----------------------------------------------------------------- places

\* str.title() on the word vocabulary.
Title(t) ==
    CASE Lower(t) = "dhaka" -> "Dhaka"
      [] Lower(t) = "seoul" -> "Seoul"
      [] Lower(t) = "brisbane" -> "Brisbane"
      [] Lower(t) = "paris" -> "Paris"
      [] Lower(t) = "from" -> "From"
      [] Lower(t) = "to" -> "To"
      [] OTHER -> t

title(s) == [i \in 1..Len(s) |-> Title(s[i])]

\* str.upper() on the word vocabulary.
Upper(t) ==
    CASE Lower(t) = "dhaka" -> "DHAKA"
      [] Lower(t) = "seoul" -> "SEOUL"
      [] Lower(t) = "brisbane" -> "BRISBANE"
      [] Lower(t) = "paris" -> "PARIS"
      [] Lower(t) = "from" -> "FROM"
      [] Lower(t) = "to" -> "TO"
      [] OTHER -> t

upper(s) == [i \in 1..Len(s) |-> Upper(s[i])]

\* The location index loaded at start-up: title-cased city -> IATA code.
ALLOWED_COUNTRIES_SET == {<<"Dhaka">>, <<"Seoul">>, <<"Brisbane">>}

CITY_TO_IATA(key) ==
    CASE key = <<"Dhaka">> -> <<"DAC">>
      [] key = <<"Seoul">> -> <<"ICN">>
      [] key = <<"Brisbane">> -> <<"BNE">>

NEARBY_BY_IATA(code) ==
    CASE code = <<"BNE">> -> << <<"OOL">> >>
      [] code = <<"ICN">> -> << <<"GMP">> >>
      [] code = <<"GMP">> -> << <<"ICN">> >>
      [] OTHER -> <<>>

\* validate_country over a text; None and "" are both the empty text here.
validate_country(country) ==
    country # <<>> /\ title(strip(country)) \in ALLOWED_COUNTRIES_SET

_normalize_country(value) ==
    IF value # <<>> THEN title(strip(value)) ELSE value

_city_to_iata(name) ==
    IF title(strip(name)) \in ALLOWED_COUNTRIES_SET
    THEN CITY_TO_IATA(title(strip(name)))
    ELSE upper(strip(name))

RECURSIVE Dedup(_, _)
Dedup(codes, seen) ==
    IF codes = <<>> THEN <<>>
    ELSE IF Head(codes) # <<>> /\ Head(codes) \notin seen
         THEN <<Head(codes)>> \o Dedup(Tail(codes), seen \cup {Head(codes)})
         ELSE Dedup(Tail(codes), seen)

\* Mutant: the primary code alone, no nearby alternates.
_expand_iata_candidates_primary_only(name) ==
    IF _city_to_iata(name) = <<>> THEN <<>> ELSE <<_city_to_iata(name)>>

_expand_iata_candidates(name) ==
    IF _city_to_iata(name) = <<>> THEN <<>>
    ELSE Dedup(<<_city_to_iata(name)>> \o NEARBY_BY_IATA(_city_to_iata(name)), {})

\* Positions k of a word "to" (any case) with words on both sides, k >= lo.
ToPositions(s, lo) ==
    {k \in lo..(Len(s) - 1) : Lower(s[k]) = "to"}

Min(S) == CHOOSE x \in S : \A y \in S : x <= y

NoRoute == [found |-> FALSE, o |-> <<>>, d |-> <<>>]

\* The route pair of the first "to" at or after lo: both groups title-cased.
RouteAt(s, first, lo) ==
    LET k == Min(ToPositions(s, lo))
    IN  [found |-> TRUE,
         o |-> title(strip(SubSeq(s, first, k - 1))),
         d |-> title(strip(SubSeq(s, k + 1, Len(s))))]

\* Mutant: the bare pattern is tried before the "from" pattern.
_parse_from_to_bare_first(text) ==
    LET s == strip(text)
    IN  IF text = <<>> THEN NoRoute
        ELSE IF ToPositions(s, 2) # {}
             THEN RouteAt(s, 1, 2)
             ELSE NoRoute

\* "from <A> to <B>" first, then the bare "<A> to <B>"; non-greedy <A>.
_parse_from_to(text) ==
    LET s == strip(text)
    IN  IF text = <<>> THEN NoRoute
        ELSE IF s # <<>> /\ Lower(s[1]) = "from" /\ ToPositions(s, 3) # {}
             THEN RouteAt(s, 2, 3)
             ELSE IF ToPositions(s, 2) # {}
                  THEN RouteAt(s, 1, 2)
                  ELSE NoRoute

SameMsg(kind) == [kind |-> kind]


\* Mutant: a single origin is accepted without comparing it with the
\* destination already set.
validate_origin_unchecked(value, s) ==
    LET r == _parse_from_to(value)
        norm == _normalize_country(value)
    IN  IF r.found /\ validate_country(r.o) /\ validate_country(r.d)
        THEN IF r.o = r.d
             THEN Reject("origin", SameMsg("same_places"))
             ELSE Result(("origin" :> Some(r.o)) @@ ("destination" :> Some(r.d)),
                         [kind |-> "got_route", origin |-> r.o, destination |-> r.d])
        ELSE IF validate_country(norm)
             THEN Result("origin" :> Some(norm), NoMsg)
             ELSE Reject("origin", [kind |-> "unsupported_origin", value |-> value])

\* Mutant: a new origin withdraws what was found out about availability.
validate_origin_forgets_availability(value, s) ==
    LET r == _parse_from_to(value)
        norm == _normalize_country(value)
    IN  IF r.found /\ validate_country(r.o) /\ validate_country(r.d)
        THEN IF r.o = r.d
             THEN Reject("origin", SameMsg("same_places"))
             ELSE Result(("origin" :> Some(r.o)) @@ ("destination" :> Some(r.d))
                         @@ ("no_flights" :> None),
                         [kind |-> "got_route", origin |-> r.o, destination |-> r.d])
        ELSE IF validate_country(norm)
             THEN IF /\ TruthyText(s["destination"])
                     /\ norm = _normalize_country(Val(s["destination"]))
                  THEN Reject("origin", SameMsg("same_origin"))
                  ELSE Result(("origin" :> Some(norm)) @@ ("no_flights" :> None), NoMsg)
             ELSE Reject("origin", [kind |-> "unsupported_origin", value |-> value])

validate_origin(value, s) ==
    LET r == _parse_from_to(value)
        norm == _normalize_country(value)
    IN  IF r.found /\ validate_country(r.o) /\ validate_country(r.d)
        THEN IF r.o = r.d
             THEN Reject("origin", SameMsg("same_places"))
             ELSE Result(("origin" :> Some(r.o)) @@ ("destination" :> Some(r.d)),
                         [kind |-> "got_route", origin |-> r.o, destination |-> r.d])
        ELSE IF validate_country(norm)
             THEN IF /\ TruthyText(s["destination"])
                     /\ norm = _normalize_country(Val(s["destination"]))
                  THEN Reject("origin", SameMsg("same_origin"))
                  ELSE Result("origin" :> Some(norm), NoMsg)
             ELSE Reject("origin", [kind |-> "unsupported_origin", value |-> value])

\* Mutant: asked for the destination, a route pair sets the destination alone.
validate_destination_alone(value, s) ==
    LET r == _parse_from_to(value)
        norm == _normalize_country(value)
    IN  IF r.found /\ validate_country(r.o) /\ validate_country(r.d)
        THEN IF r.o = r.d
             THEN Reject("destination", SameMsg("same_places"))
             ELSE Result("destination" :> Some(r.d), NoMsg)
        ELSE IF validate_country(IF r.found THEN r.d ELSE norm)
             THEN Result("destination" :> Some(IF r.found THEN r.d ELSE norm), NoMsg)
             ELSE Reject("destination",
                         [kind |-> "unsupported_destination", value |-> value])

validate_destination(value, s) ==
    LET r == _parse_from_to(value)
        norm == _normalize_country(value)
    IN  IF r.found /\ validate_country(r.o) /\ validate_country(r.d)
        THEN IF r.o = r.d
             THEN Reject("destination", SameMsg("same_places"))
             ELSE Result(("origin" :> Some(r.o)) @@ ("destination" :> Some(r.d)),
                         [kind |-> "got_route", origin |-> r.o, destination |-> r.d])
        ELSE IF ~r.found
             THEN IF validate_country(norm)
                  THEN IF /\ TruthyText(s["origin"])
                          /\ norm = _normalize_country(Val(s["origin"]))
                       THEN Reject("destination", SameMsg("same_destination"))
                       ELSE Result("destination" :> Some(norm), NoMsg)
                  ELSE Reject("destination",
                              [kind |-> "unsupported_destination", value |-> value])
             ELSE IF validate_country(r.d)
                  THEN IF /\ TruthyText(s["origin"])
                          /\ _normalize_country(Val(s["origin"])) = r.d
                       THEN Reject("destination", SameMsg("same_destination"))
                       ELSE Result("destination" :> Some(r.d), NoMsg)
                  ELSE Reject("destination",
                              [kind |-> "unsupported_destination", value |-> value])

\* ------------------------------------------------------------------ dates

IsDigits(s) == \A i \in 1..Len(s) : s[i] \in DecimalDigits

\* ^\d{2}/\d{2}/\d{4}$ on exactly ten characters.
DdMmYyyyCore(v) ==
    /\ Len(v) = 10
    /\ v[3] = "/"
    /\ v[6] = "/"
    /\ IsDigits(SubSeq(v, 1, 2))
    /\ IsDigits(SubSeq(v, 4, 5))
    /\ IsDigits(SubSeq(v, 7, 10))

\* _DDMMYYYY_RE.match(value): "$" also matches before one trailing newline.
_DDMMYYYY_RE(v) ==
    \/ DdMmYyyyCore(v)
    \/ Len(v) = 11 /\ v[11] = "\n" /\ DdMmYyyyCore(SubSeq(v, 1, 10))

IsLeap(y) == (y % 4 = 0 /\ y % 100 # 0) \/ y % 400 = 0

DaysIn(m, y) ==
    IF m = 2 THEN (IF IsLeap(y) THEN 29 ELSE 28)
    ELSE IF m \in {4, 6, 9, 11} THEN 30 ELSE 31

\* datetime(y, m, d) is a date (it raises ValueError otherwise).
ValidDate(y, m, d) ==
    y >= 1 /\ m >= 1 /\ m <= 12 /\ d >= 1 /\ d <= DaysIn(m, y)

Date(y, m, d) == [y |-> y, m |-> m, d |-> d]

\* date < date
DateLt(a, b) ==
    \/ a.y < b.y
    \/ a.y = b.y /\ a.m < b.m
    \/ a.y = b.y /\ a.m = b.m /\ a.d < b.d


\* Mutant: only the shape is checked, not the calendar.
StrptimeRaises_shape_only(v) == ~DdMmYyyyCore(v)

\* datetime.strptime(v, "%d/%m/%Y") raises ValueError: text left over after
\* the year, or day, month, year that are no calendar date.
StrptimeRaises(v) ==
    \/ ~DdMmYyyyCore(v)
    \/ ~ValidDate(IntOf(SubSeq(v, 7, 10)), IntOf(SubSeq(v, 4, 5)), IntOf(SubSeq(v, 1, 2)))

strptime(v) ==
    Date(IntOf(SubSeq(v, 7, 10)), IntOf(SubSeq(v, 4, 5)), IntOf(SubSeq(v, 1, 2)))

DigitChar(n) ==
    CASE n = 0 -> "0" [] n = 1 -> "1" [] n = 2 -> "2" [] n = 3 -> "3"
      [] n = 4 -> "4" [] n = 5 -> "5" [] n = 6 -> "6" [] n = 7 -> "7"
      [] n = 8 -> "8" [] n = 9 -> "9"

Pad2(n) == <<DigitChar((n \div 10) % 10), DigitChar(n % 10)>>

Pad4(n) == Pad2(n \div 100) \o Pad2(n % 100)

\* date.isoformat(): YYYY-MM-DD
isoformat(dt) == Pad4(dt.y) \o <<"-">> \o Pad2(dt.m) \o <<"-">> \o Pad2(dt.d)

\* The text DD/MM/YYYY of a date (what a user types).
DdMmYyyy(dt) == Pad2(dt.d) \o <<"/">> \o Pad2(dt.m) \o <<"/">> \o Pad4(dt.y)

\* ^\d{4}-\d{2}-\d{2}$
_ISO_DATE_RE(v) ==
    /\ Len(v) = 10
    /\ v[5] = "-"
    /\ v[8] = "-"
    /\ IsDigits(SubSeq(v, 1, 4))
    /\ IsDigits(SubSeq(v, 6, 7))
    /\ IsDigits(SubSeq(v, 9, 10))

SlashPositions(v) == {i \in 1..Len(v) : v[i] = "/"}

\* ^(\d{1,2})/(\d{1,2})/(\d{4})$
_SLASHED_RE(v) ==
    /\ Cardinality(SlashPositions(v)) = 2
    /\ LET p == Min(SlashPositions(v))
           q == CHOOSE x \in SlashPositions(v) : x # p
       IN  /\ p \in {2, 3}
           /\ q - p \in {2, 3}
           /\ Len(v) - q = 4
           /\ IsDigits(SubSeq(v, 1, p - 1))
           /\ IsDigits(SubSeq(v, p + 1, q - 1))
           /\ IsDigits(SubSeq(v, q + 1, Len(v)))

SlashedDate(v) ==
    LET p == Min(SlashPositions(v))
        q == CHOOSE x \in SlashPositions(v) : x # p
    IN  Date(IntOf(SubSeq(v, q + 1, Len(v))),
             IntOf(SubSeq(v, p + 1, q - 1)),
             IntOf(SubSeq(v, 1, p - 1)))

\* The ISO date of a travel-date text, or None.
_to_iso_from_ddmmyyyy(text) ==
    LET v == strip(text)
    IN  IF text = <<>> THEN None
        ELSE IF _ISO_DATE_RE(v) THEN Some(v)
        ELSE IF _SLASHED_RE(v)
             THEN IF ValidDate(SlashedDate(v).y, SlashedDate(v).m, SlashedDate(v).d)
                  THEN Some(isoformat(SlashedDate(v)))
                  ELSE None
             ELSE None

\* ---- the date normalization of the flight loader (src/flight_d.py)

SepPositions(v, sep) == {i \in 1..Len(v) : v[i] = sep}

\* The three digit groups of a text with exactly two separators.
Groups(v, sep) ==
    LET p == Min(SepPositions(v, sep))
        q == CHOOSE x \in SepPositions(v, sep) : x # p
    IN  <<SubSeq(v, 1, p - 1), SubSeq(v, p + 1, q - 1), SubSeq(v, q + 1, Len(v))>>

\* ^(\d{1,2})-(\d{1,2})-(\d{4})$
_DASHED_DMY_RE(v) ==
    /\ Cardinality(SepPositions(v, "-")) = 2
    /\ LET g == Groups(v, "-")
       IN  /\ Len(g[1]) \in {1, 2} /\ IsDigits(g[1])
           /\ Len(g[2]) \in {1, 2} /\ IsDigits(g[2])
           /\ Len(g[3]) = 4 /\ IsDigits(g[3])

\* ^(\d{4})/(\d{1,2})/(\d{1,2})$
_YMD_SLASH_RE(v) ==
    /\ Cardinality(SepPositions(v, "/")) = 2
    /\ LET g == Groups(v, "/")
       IN  /\ Len(g[1]) = 4 /\ IsDigits(g[1])
           /\ Len(g[2]) \in {1, 2} /\ IsDigits(g[2])
           /\ Len(g[3]) \in {1, 2} /\ IsDigits(g[3])

\* The decimal digits of n without leading zeros.
RECURSIVE Decimal(_)
Decimal(n) ==
    IF n < 10 THEN <<DigitChar(n)>> ELSE Decimal(n \div 10) \o <<DigitChar(n % 10)>>

\* strftime("%Y-%m-%d"): the C library decides whether %Y is padded to four
\* digits (padded) or printed as the bare number.
strftime(dt, padded) ==
    (IF padded THEN Pad4(dt.y) ELSE Decimal(dt.y))
    \o <<"-">> \o Pad2(dt.m) \o <<"-">> \o Pad2(dt.d)

\* date(y, m, d).strftime(output_fmt), None on ValueError
DateOrNone(y, m, d, padded) ==
    IF ValidDate(y, m, d) THEN Some(strftime(Date(y, m, d), padded)) ELSE None

\* The time-of-day part of an ISO datetime, taken as one token.
IsoTimes == {"16:30:00Z", "16:30:00+00:00"}

\* datetime.fromisoformat(s.replace("Z", "+00:00")) does not raise.
IsIsoDatetime(v) ==
    /\ Len(v) = 12
    /\ _ISO_DATE_RE(SubSeq(v, 1, 10))
    /\ v[11] = "T"
    /\ v[12] \in IsoTimes
    /\ ValidDate(IntOf(SubSeq(v, 1, 4)), IntOf(SubSeq(v, 6, 7)), IntOf(SubSeq(v, 9, 10)))

iso_date(s, day_first, padded) ==
    LET v == strip(s)
    IN  IF s = <<>> THEN None
        ELSE IF _ISO_DATE_RE(v)
        THEN DateOrNone(IntOf(SubSeq(v, 1, 4)), IntOf(SubSeq(v, 6, 7)),
                        IntOf(SubSeq(v, 9, 10)), padded)
        ELSE IF SepPositions(v, "T") # {} /\ IsIsoDatetime(v)
        THEN DateOrNone(IntOf(SubSeq(v, 1, 4)), IntOf(SubSeq(v, 6, 7)),
                        IntOf(SubSeq(v, 9, 10)), padded)
        ELSE IF _SLASHED_RE(v)
        THEN LET a == IntOf(Groups(v, "/")[1])
                 b == IntOf(Groups(v, "/")[2])
                 y == IntOf(Groups(v, "/")[3])
             IN  IF a > 12 /\ b <= 12 THEN DateOrNone(y, b, a, padded)
                 ELSE IF b > 12 /\ a <= 12 THEN DateOrNone(y, a, b, padded)
                 ELSE IF day_first THEN DateOrNone(y, b, a, padded)
                 ELSE DateOrNone(y, a, b, padded)
        ELSE IF _DASHED_DMY_RE(v)
        THEN DateOrNone(IntOf(Groups(v, "-")[3]), IntOf(Groups(v, "-")[2]),
                        IntOf(Groups(v, "-")[1]), padded)
        ELSE IF _YMD_SLASH_RE(v)
        THEN DateOrNone(IntOf(Groups(v, "/")[1]), IntOf(Groups(v, "/")[2]),
                        IntOf(Groups(v, "/")[3]), padded)
        ELSE None

\* The clock: datetime.utcnow().date() is Day0 plus the days gone by.
Day0 == Date(2025, 2, 27)

NextDay(dt) ==
    IF dt.d < DaysIn(dt.m, dt.y) THEN Date(dt.y, dt.m, dt.d + 1)
    ELSE IF dt.m < 12 THEN Date(dt.y, dt.m + 1, 1)
    ELSE Date(dt.y + 1, 1, 1)

RECURSIVE AddDays(_, _)
AddDays(dt, n) == IF n = 0 THEN dt ELSE AddDays(NextDay(dt), n - 1)

utcnow_date(c) == AddDays(Day0, c)

\* ---------------------------------------------------------------- flights

\* The flight store: rows of the flights table, in rowid order.  The
\* departure time is None (NULL) or Some(minutes), a stand-in for the ISO
\* timestamp text, which sorts the same way.
Flight(name, dt, o, d, dep, arr) ==
    [flight_name |-> name, travel_date |-> isoformat(dt), origin |-> o,
     destination |-> d, departure_time |-> dep, arrival_time |-> arr]

FlightRows ==
    << Flight("KE101", Date(2025, 2, 28), <<"DAC">>, <<"ICN">>, Some(900), Some(1500)),
       Flight("KE103", Date(2025, 2, 28), <<"DAC">>, <<"GMP">>, Some(700), Some(1300)),
       Flight("QF200", Date(2025, 3, 1), <<"DAC">>, <<"OOL">>, None, None),
       Flight("KE102", Date(2025, 3, 1), <<"ICN">>, <<"DAC">>, Some(800), Some(1200)),
       Flight("KE105", Date(2025, 2, 28), <<"DAC">>, <<"ICN">>, None, None),
       Flight("KE107", Date(2025, 2, 28), <<"DAC">>, <<"ICN">>, Some(600), Some(1200)),
       Flight("KE109", Date(2025, 2, 28), <<"DAC">>, <<"GMP">>, Some(1100), None),
       Flight("KE111", Date(2025, 2, 28), <<"DAC">>, <<"ICN">>, None, Some(2300)),
       Flight("KE113", Date(2025, 2, 28), <<"DAC">>, <<"ICN">>, Some(1000), Some(1600)),
       Flight("KE201", Date(2025, 3, 1), <<"DAC">>, <<"ICN">>, None, None),
       Flight("KE203", Date(2025, 3, 1), <<"DAC">>, <<"GMP">>, Some(1200), Some(1800)) >>

LIMIT == 5

InSeq(x, q) == \E i \in 1..Len(q) : q[i] = x

\* Mutant: ORDER BY departure_time alone, which puts NULL first.
RowBefore_nulls_first(i, j) ==
    LET a == FlightRows[i].departure_time
        b == FlightRows[j].departure_time
    IN  \/ ~IsSet(a) /\ IsSet(b)
        \/ IsSet(a) /\ IsSet(b) /\ Val(a) < Val(b)
        \/ IsSet(a) = IsSet(b) /\ (IsSet(a) => Val(a) = Val(b)) /\ i < j

\* ORDER BY (departure_time IS NULL), departure_time; equal keys in rowid order.
RowBefore(i, j) ==
    LET a == FlightRows[i].departure_time
        b == FlightRows[j].departure_time
    IN  \/ IsSet(a) /\ ~IsSet(b)
        \/ IsSet(a) /\ IsSet(b) /\ Val(a) < Val(b)
        \/ IsSet(a) = IsSet(b) /\ (IsSet(a) => Val(a) = Val(b)) /\ i < j

\* The rows of ids in that order: the k-th has k - 1 rows before it.
Ordered(ids) ==
    [k \in 1..Cardinality(ids) |->
        CHOOSE i \in ids : Cardinality({j \in ids \ {i} : RowBefore(j, i)}) = k - 1]

Take(q, n) == SubSeq(q, 1, IF Len(q) < n THEN Len(q) ELSE n)

Selected(row) == <<row.flight_name, row.departure_time, row.arrival_time>>

\* cur.fetchall(): the selected columns of the matching rows, in order, up
\* to the limit. The matching rows and their order are worked out once.
fetchall(ids) ==
    CHOOSE rows \in {[i \in 1..Len(picked) |-> Selected(FlightRows[picked[i]])] :
                        picked \in {Take(Ordered(h), LIMIT) : h \in {ids}}} : TRUE

\* Mutant: a failure of the flight store is not folded into the empty
\* answer.
_query_flights_for_date_unhandled(origin, destination, travel_date, dbUp) ==
    LET date_iso == _to_iso_from_ddmmyyyy(travel_date)
        origin_codes == _expand_iata_candidates(origin)
        dest_codes == _expand_iata_candidates(destination)
        hits == {i \in 1..Len(FlightRows) :
                    /\ FlightRows[i].travel_date = Val(date_iso)
                    /\ InSeq(FlightRows[i].origin, origin_codes)
                    /\ InSeq(FlightRows[i].destination, dest_codes)}
    IN  IF ~IsSet(date_iso) THEN <<>>
        ELSE IF origin_codes = <<>> \/ dest_codes = <<>> THEN <<>>
        ELSE IF ~dbUp THEN <<[flight_name |-> "error"]>>
        ELSE fetchall(hits)

\* The rows (flight_name, departure_time, arrival_time) for a route and date;
\* dbUp = FALSE is a connection or query error, caught and answered with [].
_query_flights_for_date(origin, destination, travel_date, dbUp) ==
    LET date_iso == _to_iso_from_ddmmyyyy(travel_date)
        origin_codes == _expand_iata_candidates(origin)
        dest_codes == _expand_iata_candidates(destination)
        hits == {i \in 1..Len(FlightRows) :
                    /\ FlightRows[i].travel_date = Val(date_iso)
                    /\ InSeq(FlightRows[i].origin, origin_codes)
                    /\ InSeq(FlightRows[i].destination, dest_codes)}
    IN  IF ~IsSet(date_iso) THEN <<>>
        ELSE IF origin_codes = <<>> \/ dest_codes = <<>> THEN <<>>
        ELSE IF ~dbUp THEN <<>>
        ELSE fetchall(hits)

\* ------------------------------------------------------- date validators

\* The result of validate_travel_date also tells whether the flight store
\* was queried (looked) and with which rows it answered.
DateResult(patch, msg, looked, rows) ==
    [patch |-> patch, msg |-> msg, fault |-> FALSE, looked |-> looked, rows |-> rows]


\* Mutant: the no_flights flag is inverted.
validate_travel_date_inverted(value, s, today, dbUp) ==
    LET rows == _query_flights_for_date(Val(s["origin"]), Val(s["destination"]),
                                        value, dbUp)
    IN  IF ~_DDMMYYYY_RE(value)
        THEN DateResult("travel_date" :> None, [kind |-> "date_format"], FALSE, <<>>)
        ELSE IF StrptimeRaises(value)
        THEN DateResult("travel_date" :> None, [kind |-> "date_invalid"], FALSE, <<>>)
        ELSE IF DateLt(strptime(value), today)
        THEN DateResult("travel_date" :> None, [kind |-> "date_past"], FALSE, <<>>)
        ELSE IF ~TruthyText(s["origin"]) \/ ~TruthyText(s["destination"])
        THEN DateResult("travel_date" :> Some(value), NoMsg, FALSE, <<>>)
        ELSE IF rows = <<>>
        THEN DateResult(("travel_date" :> Some(value)) @@ ("no_flights" :> Some(FALSE)),
                        NoMsg, TRUE, rows)
        ELSE DateResult(("travel_date" :> Some(value)) @@ ("no_flights" :> Some(TRUE)),
                        [kind |-> "flights", rows |-> rows,
                         origin |-> Val(s["origin"]),
                         destination |-> Val(s["destination"]), date |-> value],
                        TRUE, rows)

validate_travel_date(value, s, today, dbUp) ==
    LET rows == _query_flights_for_date(Val(s["origin"]), Val(s["destination"]),
                                        value, dbUp)
    IN  IF ~_DDMMYYYY_RE(value)
        THEN DateResult("travel_date" :> None, [kind |-> "date_format"], FALSE, <<>>)
        ELSE IF StrptimeRaises(value)
        THEN DateResult("travel_date" :> None, [kind |-> "date_invalid"], FALSE, <<>>)
        ELSE IF DateLt(strptime(value), today)
        THEN DateResult("travel_date" :> None, [kind |-> "date_past"], FALSE, <<>>)
        ELSE IF ~TruthyText(s["origin"]) \/ ~TruthyText(s["destination"])
        THEN DateResult("travel_date" :> Some(value), NoMsg, FALSE, <<>>)
        ELSE IF rows = <<>>
        THEN DateResult(("travel_date" :> Some(value)) @@ ("no_flights" :> Some(TRUE)),
                        NoMsg, TRUE, rows)
        ELSE DateResult(("travel_date" :> Some(value)) @@ ("no_flights" :> Some(FALSE)),
                        [kind |-> "flights", rows |-> rows,
                         origin |-> Val(s["origin"]),
                         destination |-> Val(s["destination"]), date |-> value],
                        TRUE, rows)

validate_return_date(value, s, today) ==
    LET dep == s["travel_date"]
    IN  IF ~_DDMMYYYY_RE(value)
        THEN Reject("return_date", [kind |-> "date_format"])
        ELSE IF (TruthyText(dep) /\ StrptimeRaises(Val(dep))) \/ StrptimeRaises(value)
        THEN Reject("return_date", [kind |-> "date_invalid"])
        ELSE IF DateLt(strptime(value), today)
        THEN Reject("return_date", [kind |-> "return_past"])
        ELSE IF TruthyText(dep) /\ DateLt(strptime(value), strptime(Val(dep)))
        THEN Reject("return_date", [kind |-> "return_before_travel"])
        ELSE Result("return_date" :> Some(value), NoMsg)

CLASSES == {<<"economy">>, <<"business">>, <<"first">>}

validate_class_selection(value, s) ==
    IF strip(lower(value)) \in CLASSES
    THEN Result("class_selection" :> Some(strip(lower(value))), NoMsg)
    ELSE Reject("class_selection", [kind |-> "ask_class"])

validate_passenger_name(value, s) ==
    IF value # <<>> /\ strip(value) # <<>>
    THEN Result("passenger_name" :> Some(strip(value)), NoMsg)
    ELSE Reject("passenger_name", [kind |-> "ask_main_name"])

\* ------------------------------------------------- required-field policy


\* Mutant: any value of no_flights, False too, ends the form.
required_slots_any_value(domain_slots, s) ==
    IF IsSet(s["no_flights"]) THEN <<>> ELSE domain_slots

required_slots(domain_slots, s) ==
    IF s["no_flights"] = Some(TRUE) THEN <<>> ELSE domain_slots

\* ----------------------------------------------------------- booking store

\* The database file: the structures of its schema in creation order, and
\* the rows of the two tables.
EmptyStore == [tables |-> <<>>, bookings |-> <<>>, passengers |-> <<>>]

HasTable(tables, name) == \E i \in 1..Len(tables) : tables[i] = name

\* CREATE TABLE IF NOT EXISTS name
CreateTableIfNotExists(tables, name) ==
    IF HasTable(tables, name) THEN tables ELSE Append(tables, name)

\* Mutant: CREATE TABLE after DROP TABLE IF EXISTS; the rows are gone.
_ensure_db_recreates(db) ==
    [tables |-> <<"bookings", "passengers">>, bookings |-> <<>>,
     passengers |-> <<>>]

\* CREATE TABLE IF NOT EXISTS bookings, then passengers
_ensure_db(db) ==
    [db EXCEPT !.tables =
        CreateTableIfNotExists(CreateTableIfNotExists(@, "bookings"),
                               "passengers")]

\* The INSERT of _save_booking: its column list and its VALUES list.
InsertColumns ==
    <<"origin", "destination", "travel_date", "return_date", "seat_preference",
      "class_selection", "passenger_name", "phone_number", "travel_count",
      "created_at">>

InsertValues ==
    <<"origin", "destination", "travel_date", "flight_name", "flight_schedule_time",
      "return_date", "seat_preference", "class_selection", "passenger_name",
      "phone_number", "travel_count", "created_at">>

\* The keys of the row submit builds, plus created_at added by _save_booking.
RowKeys ==
    {"origin", "destination", "travel_date", "return_date", "seat_preference",
     "class_selection", "passenger_name", "phone_number", "travel_count",
     "created_at"}

\* cur.execute raises: as many values as columns are needed, and a value
\* for every named parameter.
InsertRaises ==
    \/ Len(InsertColumns) # Len(InsertValues)
    \/ \E i \in 1..Len(InsertValues) : InsertValues[i] \notin RowKeys

\* [db, raised, booking_id] after _save_booking(row)
_save_booking(db, row) ==
    IF InsertRaises
    THEN [db |-> _ensure_db(db), raised |-> TRUE, booking_id |-> 0]
    ELSE [db |-> [_ensure_db(db) EXCEPT
                    !.bookings = Append(@, [id |-> Len(@) + 1, row |-> row])],
          raised |-> FALSE,
          booking_id |-> Len(db.bookings) + 1]

_save_passengers(db, booking_id, passengers) ==
    IF passengers = <<>> THEN db
    ELSE [db EXCEPT !.passengers =
            @ \o [i \in 1..Len(passengers) |->
                    [booking_id |-> booking_id, name |-> passengers[i].name,
                     phone |-> passengers[i].phone, email |-> passengers[i].email,
                     seat_preference |-> passengers[i].seat]]]

\* ------------------------------------------------------------------ submit

NA == <<"N/A">>

\* tracker.get_slot(k) or "N/A"
TextOrNA(s, k) == IF TruthyText(s[k]) THEN Val(s[k]) ELSE NA

BookingRow(s) ==
    [origin |-> TextOrNA(s, "origin"),
     destination |-> TextOrNA(s, "destination"),
     travel_date |-> TextOrNA(s, "travel_date"),
     return_date |-> TextOrNA(s, "return_date"),
     seat_preference |-> NA,
     class_selection |-> TextOrNA(s, "class_selection"),
     passenger_name |-> TextOrNA(s, "passenger_name"),
     phone_number |-> NA,
     travel_count |-> IF TruthyInt(s["travel_count"]) THEN Val(s["travel_count"]) ELSE 1]

\* Mutant: the accumulator survives the reset.
ClearAll_keeps_accumulator == [k \in SlotNames \ {"passengers"} |-> None]

\* [SlotSet(k, None) for every slot of the flow]
ClearAll == [k \in SlotNames |-> None]


\* Mutant: the booking is saved whatever no_flights says.
SubmitBooking_always_saves(s, db) ==
    LET saved == _save_booking(db, BookingRow(s))
        passengers == LoadPassengers(s)
    IN  [db |-> IF saved.raised THEN saved.db
                ELSE _save_passengers(saved.db, saved.booking_id, passengers),
         msg |-> [kind |-> "confirmed", row |-> BookingRow(s),
                  passengers |-> passengers,
                  saved |-> ~saved.raised,
                  booking_id |-> saved.booking_id],
         events |-> <<"SlotSet">>,
         patch |-> ClearAll]

\* Mutant: a failed write is not caught; the turn ends without a message
\* and without the reset.
SubmitBooking_fails_turn(s, db) ==
    LET saved == _save_booking(db, BookingRow(s))
        passengers == LoadPassengers(s)
    IN  IF s["no_flights"] = Some(TRUE)
        THEN [db |-> db,
              msg |-> [kind |-> "apology", origin |-> TextOrNA(s, "origin"),
                       destination |-> TextOrNA(s, "destination"),
                       travel_date |-> TextOrNA(s, "travel_date")],
              events |-> <<"Restarted">>,
              patch |-> ClearAll]
        ELSE IF saved.raised
        THEN [db |-> saved.db, msg |-> NoMsg, events |-> <<>>, patch |-> <<>>]
        ELSE [db |-> _save_passengers(saved.db, saved.booking_id, passengers),
              msg |-> [kind |-> "confirmed", row |-> BookingRow(s),
                       passengers |-> passengers,
                       saved |-> TRUE,
                       booking_id |-> saved.booking_id],
              events |-> <<"SlotSet">>,
              patch |-> ClearAll]

\* ActionSubmitBooking.run: [db, msg, events, patch] where events are the
\* events returned and patch the slot changes they make.
SubmitBooking(s, db) ==
    LET saved == _save_booking(db, BookingRow(s))
        passengers == LoadPassengers(s)
    IN  IF s["no_flights"] = Some(TRUE)
        THEN [db |-> db,
              msg |-> [kind |-> "apology", origin |-> TextOrNA(s, "origin"),
                       destination |-> TextOrNA(s, "destination"),
                       travel_date |-> TextOrNA(s, "travel_date")],
              events |-> <<"Restarted">>,
              patch |-> ClearAll]
        ELSE [db |-> IF saved.raised THEN saved.db
                     ELSE _save_passengers(saved.db, saved.booking_id, passengers),
              msg |-> [kind |-> "confirmed", row |-> BookingRow(s),
                       passengers |-> passengers,
                       saved |-> ~saved.raised,
                       booking_id |-> saved.booking_id],
              events |-> <<"SlotSet">>,
              patch |-> ClearAll]

\* ------------------------------------------------------------------ inputs

MaxPassengers == 2
MaxTicks == 1

Chars(str) ==
    CASE str = "+15551234567" ->
           <<"+", "1", "5", "5", "5", "1", "2", "3", "4", "5", "6", "7">>
      [] str = "555 1234" -> <<"5", "5", "5", " ", "1", "2", "3", "4">>
      [] str = "12345" -> <<"1", "2", "3", "4", "5">>
      [] str = "a@b.c" -> <<"a", "@", "b", ".", "c">>
      [] str = " a@b.c" -> <<" ", "a", "@", "b", ".", "c">>
      [] str = "a@b" -> <<"a", "@", "b">>
      [] str = "31/02/2025" -> <<"3", "1", "/", "0", "2", "/", "2", "0", "2", "5">>
      [] str = "2025-03-01" -> <<"2", "0", "2", "5", "-", "0", "3", "-", "0", "1">>

TravelCountInputs == {<<"1">>, <<" ", "2">>, <<"0">>, <<"x">>, <<"²">>, <<>>}

NameInputs == {<<"Ann">>, <<" ", "Ann", " ">>, <<" ">>, <<>>}

PhoneInputs == {Chars("+15551234567"), Chars("555 1234"), Chars("12345"), <<>>}

EmailInputs == {Chars("a@b.c"), Chars(" a@b.c"), Chars("a@b"), <<>>}

SeatInputs == {<<"window">>, <<"Aisle", " ">>, <<"exit">>, <<>>}

ClassInputs == {<<"economy">>, <<"Business", " ">>, <<"exit">>}

PlaceInputs ==
    {<<"dhaka">>, <<" ", "SEOUL", " ">>, <<"Brisbane">>, <<"paris">>, <<>>,
     <<"from", "dhaka", "to", "seoul">>, <<"Seoul", "to", "Brisbane">>,
     <<"dhaka", "TO", "Dhaka">>, <<"paris", "to", "Seoul">>,
     <<"Seoul", "to", "paris">>}

DateInputs ==
    {DdMmYyyy(Date(2025, 2, 26)), DdMmYyyy(Date(2025, 2, 27)),
     DdMmYyyy(Date(2025, 2, 28)), DdMmYyyy(Date(2025, 3, 1)),
     DdMmYyyy(Date(2025, 2, 28)) \o <<"\n">>,
     Chars("31/02/2025"), Chars("2025-03-01"), <<>>}

\* The answers that set up a route before the dates are asked.
RouteInputs == {<<"from", "dhaka", "to", "seoul">>, <<"Brisbane">>, <<"paris">>}

\* The form's declared field lists handed to the required-field policy.
DeclaredLists ==
    {<<"origin", "destination", "travel_date">>,
     <<"origin", "destination", "travel_date", "return_date", "class_selection",
       "passenger_name", "travel_count", "current_passenger_name",
       "current_passenger_phone", "current_passenger_email",
       "current_passenger_seat_preference">>,
     <<>>}

MaxRows == 2

\* The sequences over S of length up to n.
SeqsUpTo(S, n) == UNION {[1..k -> S] : k \in 0..n}

\* Rows a bookings table may hold from earlier bookings.
StoredBookings ==
    {[i \in 1..Len(q) |-> [id |-> i, row |-> q[i]]] :
        q \in SeqsUpTo({BookingRow(AllUnset),
                        [BookingRow(AllUnset) EXCEPT !.origin = <<"Dhaka">>,
                                                     !.destination = <<"Seoul">>]},
                       MaxRows)}

\* Rows a passengers table may hold.
StoredPassengers ==
    SeqsUpTo({[booking_id |-> 1, name |-> <<"Ann">>, phone |-> <<"12345678">>,
               email |-> <<"a@b.c">>, seat_preference |-> <<"window">>],
              [booking_id |-> 1, name |-> <<"Bob">>, phone |-> <<"12345678">>,
               email |-> <<"a@b.c">>, seat_preference |-> <<"aisle">>]},
             MaxRows)

\* The database files the action server may find at DB_PATH.
StoreInputs ==
    {db \in [tables : {<<>>, <<"bookings">>, <<"passengers">>,
                       <<"bookings", "passengers">>,
                       <<"passengers", "bookings">>},
             bookings : StoredBookings,
             passengers : StoredPassengers] :
        /\ db.bookings # <<>> => HasTable(db.tables, "bookings")
        /\ db.passengers # <<>> => HasTable(db.tables, "passengers")}

MaxWords == 4

\* The words of the texts handed to _parse_from_to.
RouteWords == {"from", "FROM", "to", "TO", "dhaka", "Seoul", " "}

RouteTexts == SeqsUpTo(RouteWords, MaxWords)

MaxConversations == 2
MaxCalls == 1

\* The conversations served at the same time.
Conversations == 1..MaxConversations

\* The primary contact of a conversation's booking.
ContactOf(c) ==
    CASE c = 1 -> <<"Ann">>
      [] c = 2 -> <<"Bob">>
      [] OTHER -> <<"Cat">>

\* The passenger lists a conversation may have gathered.
PassengerLists(c) ==
    {<<>>,
     <<[name |-> ContactOf(c), phone |-> <<"12345678">>, email |-> <<"a@b.c">>,
        seat |-> <<"window">>]>>}

\* The storage operations, and the action that uses them.
StorageCalls ==
    {"_ensure_db", "_save_booking", "_save_passengers", "_query_flights_for_date",
     "action_submit_booking"}

\* A conversation between calls: the call it made (op), where the call is
\* (pc), the connections it holds open, named by the function that opened
\* them (conn), whether an exception is on its way up (raised), whether the
\* database or the file system failed during the call (env), and how the
\* call ended (result).
IdleConversation ==
    [op |-> "none", pc |-> "idle", conn |-> {}, raised |-> FALSE, env |-> FALSE,
     booking_id |-> 0, passengers |-> <<>>, result |-> "none", calls |-> 0]

IdleConversations == [c \in Conversations |-> IdleConversation]

\* The day and month components and the years of the slashed dates given
\* to iso_date.
DayMonthTexts == {<<"0">>, <<"2">>, <<"0", "5">>, <<"1", "2">>, <<"1", "3">>,
                  <<"2", "9">>, <<"3", "1">>}

YearTexts == {<<"2", "0", "2", "5">>, <<"2", "0", "2", "4">>,
              <<"0", "9", "9", "9">>, <<"0", "0", "0", "0">>}

IsoDateInputs ==
    {a \o <<"/">> \o b \o <<"/">> \o y :
        a \in DayMonthTexts, b \in DayMonthTexts, y \in YearTexts}
    \cup {<<>>, <<" ", "1", "3", "/", "2", "/", "2", "0", "2", "5", " ">>,
          Chars("2025-03-01"), Chars("31/02/2025"),
          Chars("2025-03-01") \o <<"T", "16:30:00Z">>,
          Chars("2025-03-01") \o <<"T", "x">>,
          <<"0", "1", "-", "0", "3", "-", "2", "0", "2", "5">>,
          <<"2", "0", "2", "5", "/", "3", "/", "1">>,
          <<"2", "0", "2", "5", "-", "0", "2", "-", "3", "0">>}

\* ----------------------------------------------------------- state machine

\* The last call: its name and input, and what it yielded.
Idle ==
    [op |-> "none", value |-> <<>>, patch |-> <<>>, msg |-> NoMsg,
     fault |-> FALSE, looked |-> FALSE, rows |-> <<>>, events |-> <<>>,
     ret |-> <<>>, dbUp |-> TRUE]

Init ==
    /\ slots = AllUnset
    /\ clock = 0
    /\ store = EmptyStore
    /\ last = Idle
    /\ conv = IdleConversations

\* One validator call of the hosting runtime: the patch is applied to the
\* snapshot; a fault leaves the snapshot as it was.
Validate(op, value, r) ==
    /\ slots' = IF r.fault THEN slots ELSE ApplyPatch(slots, r.patch)
    /\ last' = [Idle EXCEPT !.op = op, !.value = value, !.patch = r.patch,
                            !.msg = r.msg, !.fault = r.fault]
    /\ UNCHANGED <<clock, store, conv>>

ValidateTravelCount ==
    \E value \in TravelCountInputs :
        Validate("validate_travel_count", value, validate_travel_count(value, slots))

ValidateCurrentPassengerName ==
    \E value \in NameInputs :
        Validate("validate_current_passenger_name", value,
                 validate_current_passenger_name(value, slots))

ValidateCurrentPassengerPhone ==
    \E value \in PhoneInputs :
        Validate("validate_current_passenger_phone", value,
                 validate_current_passenger_phone(value, slots))

ValidateCurrentPassengerEmail ==
    \E value \in EmailInputs :
        Validate("validate_current_passenger_email", value,
                 validate_current_passenger_email(value, slots))

ValidateCurrentPassengerSeatPreference ==
    /\ Len(LoadPassengers(slots)) < MaxPassengers
    /\ \E value \in SeatInputs :
        Validate("validate_current_passenger_seat_preference", value,
                 validate_current_passenger_seat_preference(value, slots))

OriginAnswer(inputs) ==
    \E value \in inputs :
        Validate("validate_origin", value, validate_origin(value, slots))

DestinationAnswer(inputs) ==
    \E value \in inputs :
        Validate("validate_destination", value, validate_destination(value, slots))

ValidateOrigin == OriginAnswer(PlaceInputs)

ValidateDestination == DestinationAnswer(PlaceInputs)

ValidateTravelDate ==
    \E value \in DateInputs, dbUp \in BOOLEAN :
        \E r \in {validate_travel_date(value, slots, utcnow_date(clock), dbUp)} :
            /\ slots' = ApplyPatch(slots, r.patch)
            /\ last' = [Idle EXCEPT !.op = "validate_travel_date", !.value = value,
                                    !.patch = r.patch, !.msg = r.msg,
                                    !.looked = r.looked, !.rows = r.rows,
                                    !.dbUp = dbUp]
            /\ UNCHANGED <<clock, store, conv>>

ValidateReturnDate ==
    \E value \in DateInputs :
        Validate("validate_return_date", value,
                 validate_return_date(value, slots, utcnow_date(clock)))

ValidateClassSelection ==
    \E value \in ClassInputs :
        Validate("validate_class_selection", value,
                 validate_class_selection(value, slots))

ValidatePassengerName ==
    \E value \in NameInputs :
        Validate("validate_passenger_name", value,
                 validate_passenger_name(value, slots))

\* The runtime asks the policy which fields are still required.
RequiredSlots ==
    \E domain_slots \in DeclaredLists :
        /\ last' = [Idle EXCEPT !.op = "required_slots", !.value = domain_slots,
                                !.ret = required_slots(domain_slots, slots)]
        /\ UNCHANGED <<slots, clock, store, conv>>

Submit ==
    LET r == SubmitBooking(slots, store)
    IN  /\ slots' = ApplyPatch(slots, r.patch)
        /\ store' = r.db
        /\ last' = [Idle EXCEPT !.op = "action_submit_booking", !.patch = r.patch,
                                !.msg = r.msg, !.events = r.events]
        /\ UNCHANGED <<clock, conv>>

\* _ensure_db() on the database as it is; the call's record keeps the
\* schema it found.
EnsureDb ==
    /\ store' = _ensure_db(store)
    /\ last' = [Idle EXCEPT !.op = "_ensure_db", !.ret = store.tables]
    /\ UNCHANGED <<slots, clock, conv>>

\* ---- the storage operations, statement by statement, for conversations
\* ---- that run side by side

\* The call of conversation cv is over: it returned or it raised.
Ended(cv, res) == [cv EXCEPT !.pc = "idle", !.raised = FALSE, !.result = res]

\* try/except of ActionSubmitBooking.run: the saved line or the warning.
SubmitEnds(cv) ==
    [cv EXCEPT !.pc = "s_done", !.raised = FALSE,
               !.result = IF cv.raised THEN "warning" ELSE "saved"]

\* _save_passengers is left, returning or raising.
LeaveSavePassengers(cv) ==
    IF cv.op = "_save_passengers"
    THEN Ended(cv, IF cv.raised THEN "raised" ELSE "returned")
    ELSE SubmitEnds(cv)

\* _save_booking is left: its caller goes on with _save_passengers.
LeaveSaveBooking(cv) ==
    IF cv.op = "_save_booking"
    THEN Ended(cv, IF cv.raised THEN "raised" ELSE "returned")
    ELSE IF cv.raised THEN SubmitEnds(cv) ELSE [cv EXCEPT !.pc = "p_check"]

\* _ensure_db is left: _save_booking goes on with its own connection.
LeaveEnsure(cv) ==
    IF cv.op = "_ensure_db"
    THEN Ended(cv, IF cv.raised THEN "raised" ELSE "returned")
    ELSE IF cv.raised THEN LeaveSaveBooking(cv) ELSE [cv EXCEPT !.pc = "b_connect"]

\* conn = sqlite3.connect(...) of function fn
Open(cv, fn) == [cv EXCEPT !.conn = @ \cup {fn}]

\* Mutant: conn.close() after the try block, not in a finally.
Close_without_finally(cv, fn) ==
    IF cv.raised THEN cv ELSE [cv EXCEPT !.conn = @ \ {fn}]

\* finally: conn.close()
Close(cv, fn) == [cv EXCEPT !.conn = @ \ {fn}]

\* The database or the file system fails under a statement.
Failed(cv) == [cv EXCEPT !.raised = TRUE, !.env = TRUE]

\* The booking row of conversation c.
ConversationRow(c) == [BookingRow(AllUnset) EXCEPT !.passenger_name = ContactOf(c)]

\* A conversation calls a storage operation, or submits its booking.
Call(c) ==
    /\ conv[c].pc = "idle"
    /\ conv[c].calls < MaxCalls
    /\ \E op \in StorageCalls, passengers \in PassengerLists(c) :
          conv' = [conv EXCEPT ![c] =
                     [op |-> op,
                      pc |-> CASE op = "_save_passengers" -> "p_check"
                               [] op = "_query_flights_for_date" -> "q_connect"
                               [] OTHER -> "e_connect",
                      conn |-> {}, raised |-> FALSE, env |-> FALSE,
                      booking_id |-> IF op = "_save_passengers" THEN 1 ELSE 0,
                      passengers |-> IF op \in {"_save_passengers",
                                                "action_submit_booking"}
                                     THEN passengers ELSE <<>>,
                      result |-> "none", calls |-> conv[c].calls + 1]]
    /\ UNCHANGED <<slots, clock, store, last>>

\* _ensure_db: conn = sqlite3.connect(DB_PATH)
EnsureConnect(c) ==
    /\ conv[c].pc = "e_connect"
    /\ \E ok \in BOOLEAN :
          conv' = [conv EXCEPT ![c] =
                     IF ok THEN [Open(conv[c], "_ensure_db") EXCEPT !.pc = "e_create"]
                     ELSE LeaveEnsure(Failed(conv[c]))]
    /\ UNCHANGED <<slots, clock, store, last>>

\* _ensure_db: the two CREATE TABLE IF NOT EXISTS and the commit
EnsureCreate(c) ==
    /\ conv[c].pc = "e_create"
    /\ \E ok \in BOOLEAN :
          /\ store' = IF ok THEN _ensure_db(store) ELSE store
          /\ conv' = [conv EXCEPT ![c] =
                        [(IF ok THEN conv[c] ELSE Failed(conv[c]))
                            EXCEPT !.pc = "e_close"]]
    /\ UNCHANGED <<slots, clock, last>>

\* _ensure_db: finally: conn.close()
EnsureClose(c) ==
    /\ conv[c].pc = "e_close"
    /\ conv' = [conv EXCEPT ![c] = LeaveEnsure(Close(conv[c], "_ensure_db"))]
    /\ UNCHANGED <<slots, clock, store, last>>

\* _save_booking: conn = sqlite3.connect(DB_PATH)
BookingConnect(c) ==
    /\ conv[c].pc = "b_connect"
    /\ \E ok \in BOOLEAN :
          conv' = [conv EXCEPT ![c] =
                     IF ok THEN [Open(conv[c], "_save_booking") EXCEPT !.pc = "b_insert"]
                     ELSE LeaveSaveBooking(Failed(conv[c]))]
    /\ UNCHANGED <<slots, clock, store, last>>

\* _save_booking: the INSERT, lastrowid and the commit
BookingInsert(c) ==
    /\ conv[c].pc = "b_insert"
    /\ \E ok \in BOOLEAN :
          IF InsertRaises
          THEN /\ store' = store
               /\ conv' = [conv EXCEPT ![c] =
                             [conv[c] EXCEPT !.raised = TRUE, !.pc = "b_close"]]
          ELSE IF ok
          THEN /\ store' = [store EXCEPT !.bookings =
                               Append(@, [id |-> Len(@) + 1,
                                          row |-> ConversationRow(c)])]
               /\ conv' = [conv EXCEPT ![c] =
                             [conv[c] EXCEPT !.booking_id = Len(store.bookings) + 1,
                                             !.pc = "b_close"]]
          ELSE /\ store' = store
               /\ conv' = [conv EXCEPT ![c] =
                             [Failed(conv[c]) EXCEPT !.pc = "b_close"]]
    /\ UNCHANGED <<slots, clock, last>>

\* _save_booking: finally: conn.close()
BookingClose(c) ==
    /\ conv[c].pc = "b_close"
    /\ conv' = [conv EXCEPT ![c] = LeaveSaveBooking(Close(conv[c], "_save_booking"))]
    /\ UNCHANGED <<slots, clock, store, last>>

\* _save_passengers: if not passengers: return
PassengersCheck(c) ==
    /\ conv[c].pc = "p_check"
    /\ conv' = [conv EXCEPT ![c] =
                  IF conv[c].passengers = <<>> THEN LeaveSavePassengers(conv[c])
                  ELSE [conv[c] EXCEPT !.pc = "p_connect"]]
    /\ UNCHANGED <<slots, clock, store, last>>

\* _save_passengers: conn = sqlite3.connect(DB_PATH)
PassengersConnect(c) ==
    /\ conv[c].pc = "p_connect"
    /\ \E ok \in BOOLEAN :
          conv' = [conv EXCEPT ![c] =
                     IF ok
                     THEN [Open(conv[c], "_save_passengers") EXCEPT !.pc = "p_insert"]
                     ELSE LeaveSavePassengers(Failed(conv[c]))]
    /\ UNCHANGED <<slots, clock, store, last>>

\* _save_passengers: executemany and the commit
PassengersInsert(c) ==
    /\ conv[c].pc = "p_insert"
    /\ \E ok \in BOOLEAN :
          /\ store' = IF ok /\ HasTable(store.tables, "passengers")
                      THEN _save_passengers(store, conv[c].booking_id,
                                            conv[c].passengers)
                      ELSE store
          /\ conv' = [conv EXCEPT ![c] =
                        [(IF ok /\ HasTable(store.tables, "passengers")
                          THEN conv[c] ELSE Failed(conv[c]))
                            EXCEPT !.pc = "p_close"]]
    /\ UNCHANGED <<slots, clock, last>>

\* _save_passengers: finally: conn.close()
PassengersClose(c) ==
    /\ conv[c].pc = "p_close"
    /\ conv' = [conv EXCEPT ![c] =
                  LeaveSavePassengers(Close(conv[c], "_save_passengers"))]
    /\ UNCHANGED <<slots, clock, store, last>>

\* _query_flights_for_date: conn = sqlite3.connect(FLIGHTS_DB_PATH), in the try
QueryConnect(c) ==
    /\ conv[c].pc = "q_connect"
    /\ \E ok \in BOOLEAN :
          conv' = [conv EXCEPT ![c] =
                     IF ok
                     THEN [Open(conv[c], "_query_flights_for_date")
                              EXCEPT !.pc = "q_execute"]
                     ELSE [Failed(conv[c]) EXCEPT !.pc = "q_close"]]
    /\ UNCHANGED <<slots, clock, store, last>>

\* _query_flights_for_date: execute and fetchall; except Exception: return []
QueryExecute(c) ==
    /\ conv[c].pc = "q_execute"
    /\ \E ok \in BOOLEAN :
          conv' = [conv EXCEPT ![c] =
                     [(IF ok THEN conv[c] ELSE Failed(conv[c]))
                         EXCEPT !.pc = "q_close"]]
    /\ UNCHANGED <<slots, clock, store, last>>

\* _query_flights_for_date: finally: try: conn.close() except: pass
QueryClose(c) ==
    /\ conv[c].pc = "q_close"
    /\ conv' = [conv EXCEPT ![c] =
                  Ended(Close(conv[c], "_query_flights_for_date"),
                        IF conv[c].raised THEN "empty" ELSE "rows")]
    /\ UNCHANGED <<slots, clock, store, last>>

\* ActionSubmitBooking.run: the confirmation and the SlotSet events
SubmitDone(c) ==
    /\ conv[c].pc = "s_done"
    /\ conv' = [conv EXCEPT ![c] = [conv[c] EXCEPT !.pc = "idle"]]
    /\ UNCHANGED <<slots, clock, store, last>>

\* A day goes by.
Tick ==
    /\ clock < MaxTicks
    /\ clock' = clock + 1
    /\ last' = [Idle EXCEPT !.op = "tick"]
    /\ UNCHANGED <<slots, store, conv>>

\* The passenger loop.
NextLoop ==
    \/ ValidateTravelCount
    \/ ValidateCurrentPassengerName
    \/ ValidateCurrentPassengerPhone
    \/ ValidateCurrentPassengerEmail
    \/ ValidateCurrentPassengerSeatPreference
    \/ Submit

SpecLoop == Init /\ [][NextLoop]_vars

\* Origin and destination.
NextRoute ==
    \/ ValidateOrigin
    \/ ValidateDestination
    \/ Submit

SpecRoute == Init /\ [][NextRoute]_vars

\* The dates, the availability lookup and the required-field policy, once
\* a route was (or was not) given.
NextDates ==
    \/ OriginAnswer(RouteInputs)
    \/ DestinationAnswer(RouteInputs)
    \/ ValidateTravelDate
    \/ ValidateReturnDate
    \/ RequiredSlots
    \/ Submit
    \/ Tick

SpecDates == Init /\ [][NextDates]_vars

\* The route parser on its own: a text is given, then parsed.
InitParse ==
    /\ slots = AllUnset
    /\ clock = 0
    /\ store = EmptyStore
    /\ \E text \in RouteTexts : last = [Idle EXCEPT !.value = text]
    /\ conv = IdleConversations

ParseFromTo ==
    /\ last.op = "none"
    /\ last' = [last EXCEPT !.op = "_parse_from_to",
                            !.ret = _parse_from_to(last.value)]
    /\ UNCHANGED <<slots, clock, store, conv>>

SpecParse == InitParse /\ [][ParseFromTo]_vars

\* Conversations that use the booking store and the flight store side by
\* side, one statement at a time.
NextStorage ==
    \E c \in Conversations :
        \/ Call(c)
        \/ EnsureConnect(c)
        \/ EnsureCreate(c)
        \/ EnsureClose(c)
        \/ BookingConnect(c)
        \/ BookingInsert(c)
        \/ BookingClose(c)
        \/ PassengersCheck(c)
        \/ PassengersConnect(c)
        \/ PassengersInsert(c)
        \/ PassengersClose(c)
        \/ QueryConnect(c)
        \/ QueryExecute(c)
        \/ QueryClose(c)
        \/ SubmitDone(c)

SpecStorage == Init /\ [][NextStorage]_vars

\* The date normalization on its own: a text and a preference are given,
\* then normalized.
InitIso ==
    /\ slots = AllUnset
    /\ clock = 0
    /\ store = EmptyStore
    /\ conv = IdleConversations
    /\ \E s \in IsoDateInputs, day_first \in BOOLEAN :
          last = [Idle EXCEPT !.value = [s |-> s, day_first |-> day_first]]

IsoDate ==
    /\ last.op = "none"
    /\ \E padded \in BOOLEAN :
          last' = [last EXCEPT !.op = "iso_date",
                               !.ret = iso_date(last.value.s, last.value.day_first,
                                                padded)]
    /\ UNCHANGED <<slots, clock, store, conv>>

SpecIso == InitIso /\ [][IsoDate]_vars

\* ---- the whole form: the fields are answered in the form's order, and
\* ---- at any point of it some validator is given some answer

\* The fields of the form, in the order they are asked.
FormFields ==
    <<"origin", "destination", "travel_date", "return_date", "class_selection",
      "passenger_name", "travel_count", "current_passenger_name",
      "current_passenger_phone", "current_passenger_email",
      "current_passenger_seat_preference">>

\* The first field still unset; nothing is asked once no_flights is true.
FormAsked ==
    IF slots["no_flights"] = Some(TRUE) THEN "none"
    ELSE IF \A i \in 1..Len(FormFields) : IsSet(slots[FormFields[i]]) THEN "none"
    ELSE FormFields[CHOOSE i \in 1..Len(FormFields) :
                       /\ ~IsSet(slots[FormFields[i]])
                       /\ \A j \in 1..(i - 1) : IsSet(slots[FormFields[j]])]

\* The validator's answer to a good value for the field asked.
FormResult(field, dbUp) ==
    CASE field = "origin" ->
           validate_origin(<<"from", "dhaka", "to", "seoul">>, slots)
      [] field = "destination" -> validate_destination(<<"seoul">>, slots)
      [] field = "travel_date" ->
           validate_travel_date(DdMmYyyy(Date(2025, 2, 28)), slots,
                                utcnow_date(clock), dbUp)
      [] field = "return_date" ->
           validate_return_date(DdMmYyyy(Date(2025, 3, 1)), slots, utcnow_date(clock))
      [] field = "class_selection" -> validate_class_selection(<<"economy">>, slots)
      [] field = "passenger_name" -> validate_passenger_name(<<"Ann">>, slots)
      [] field = "travel_count" -> validate_travel_count(<<" ", "2">>, slots)
      [] field = "current_passenger_name" ->
           validate_current_passenger_name(ContactOf(IdxOr1(slots)), slots)
      [] field = "current_passenger_phone" ->
           validate_current_passenger_phone(Chars("+15551234567"), slots)
      [] field = "current_passenger_email" ->
           validate_current_passenger_email(Chars("a@b.c"), slots)
      [] field = "current_passenger_seat_preference" ->
           validate_current_passenger_seat_preference(<<"window">>, slots)

\* The form is under way: every answer so far was a good one.
OnTheWay == <<"form">>

InitForm ==
    /\ slots = AllUnset
    /\ clock = 0
    /\ store = EmptyStore
    /\ last = [Idle EXCEPT !.ret = OnTheWay]
    /\ conv = IdleConversations

\* The field asked is answered well.
FormAnswer ==
    /\ last.ret = OnTheWay
    /\ FormAsked # "none"
    /\ \E dbUp \in BOOLEAN :
          \E r \in {FormResult(FormAsked, dbUp)} :
              /\ slots' = ApplyPatch(slots, r.patch)
              /\ last' = [Idle EXCEPT !.op = "form", !.value = FormAsked,
                                      !.patch = r.patch, !.msg = r.msg,
                                      !.ret = OnTheWay]
    /\ UNCHANGED <<clock, store, conv>>

\* The form goes on, or some validator is given some answer.
NextForm ==
    \/ FormAnswer
    \/ last.ret = OnTheWay /\ ValidateOrigin
    \/ last.ret = OnTheWay /\ ValidateDestination
    \/ last.ret = OnTheWay /\ ValidateTravelDate
    \/ last.ret = OnTheWay /\ ValidateReturnDate
    \/ last.ret = OnTheWay /\ ValidateClassSelection
    \/ last.ret = OnTheWay /\ ValidatePassengerName
    \/ last.ret = OnTheWay /\ ValidateTravelCount
    \/ last.ret = OnTheWay /\ ValidateCurrentPassengerName
    \/ last.ret = OnTheWay /\ ValidateCurrentPassengerPhone
    \/ last.ret = OnTheWay /\ ValidateCurrentPassengerEmail
    \/ last.ret = OnTheWay /\ ValidateCurrentPassengerSeatPreference

SpecForm == InitForm /\ [][NextForm]_vars

\* ---- the passenger loop with a user who answers what is asked: the
\* ---- count first, then for each passenger the name, the phone, the
\* ---- email and the seat, each as often as it takes

\* The field the user is answering.
Asked ==
    IF ~(IsSet(slots["current_passenger_index"]) /\ IsSet(slots["expected_passengers"]))
    THEN "travel_count"
    ELSE IF ~TruthyText(slots["current_passenger_name"]) THEN "current_passenger_name"
    ELSE IF ~TruthyText(slots["current_passenger_phone"]) THEN "current_passenger_phone"
    ELSE IF ~TruthyText(slots["current_passenger_email"]) THEN "current_passenger_email"
    ELSE IF ~IsSet(slots["current_passenger_seat_preference"])
    THEN "current_passenger_seat_preference"
    ELSE "none"

\* One validator call; seats is the number of seat values accepted since
\* travel_count was accepted, kept with the call's record.
Answer(op, value, r, seats) ==
    /\ slots' = IF r.fault THEN slots ELSE ApplyPatch(slots, r.patch)
    /\ last' = [Idle EXCEPT !.op = op, !.value = value, !.patch = r.patch,
                            !.msg = r.msg, !.fault = r.fault, !.ret = seats]
    /\ UNCHANGED <<clock, store, conv>>

\* The names the user gives for passenger idx: the passenger's, or none.
NameAnswers(idx) == {ContactOf(idx), <<" ">>, <<>>}

AnswerTravelCount ==
    /\ Asked = "travel_count"
    /\ \E value \in TravelCountInputs :
          Answer("validate_travel_count", value,
                 validate_travel_count(value, slots), 0)

AnswerName(values) ==
    /\ Asked = "current_passenger_name"
    /\ \E value \in values :
          Answer("validate_current_passenger_name", value,
                 validate_current_passenger_name(value, slots), last.ret)

AnswerPhone(values) ==
    /\ Asked = "current_passenger_phone"
    /\ \E value \in values :
          Answer("validate_current_passenger_phone", value,
                 validate_current_passenger_phone(value, slots), last.ret)

AnswerEmail(values) ==
    /\ Asked = "current_passenger_email"
    /\ \E value \in values :
          Answer("validate_current_passenger_email", value,
                 validate_current_passenger_email(value, slots), last.ret)

AnswerSeat(values) ==
    /\ Asked = "current_passenger_seat_preference"
    /\ \E value \in values :
          Answer("validate_current_passenger_seat_preference", value,
                 validate_current_passenger_seat_preference(value, slots),
                 IF strip(lower(value)) \in SEATS THEN last.ret + 1 ELSE last.ret)

NextAnswers ==
    \/ AnswerTravelCount
    \/ AnswerName(NameAnswers(IdxOr1(slots)))
    \/ AnswerPhone(PhoneInputs)
    \/ AnswerEmail(EmailInputs)
    \/ AnswerSeat(SeatInputs)

\* The user gets each answer right in the end.
SpecAnswers ==
    /\ Init
    /\ [][NextAnswers]_vars
    /\ WF_vars(AnswerName({ContactOf(IdxOr1(slots))}))
    /\ WF_vars(AnswerPhone({Chars("+15551234567")}))
    /\ WF_vars(AnswerEmail({Chars("a@b.c")}))
    /\ WF_vars(AnswerSeat({<<"window">>}))

\* The booking store: the action server starts on whatever database file is
\* at DB_PATH.
InitStore ==
    /\ slots = AllUnset
    /\ clock = 0
    /\ store \in StoreInputs
    /\ last = Idle
    /\ conv = IdleConversations

NextStore ==
    \/ EnsureDb
    \/ Submit

SpecStore == InitStore /\ [][NextStore]_vars

Next ==
    \/ NextLoop
    \/ NextRoute
    \/ NextDates
    \/ ValidateClassSelection
    \/ ValidatePassengerName

Spec == Init /\ [][Next]_vars

\* ================================================================= claims

Accumulator == LoadPassengers(slots)

SeatSlot == slots["current_passenger_seat_preference"]

\* A slot's text, "" when unset.
TextOf(o) == IF IsSet(o) THEN Val(o) ELSE <<>>

\* The record of the working fields with seat v.
CurrentPassenger(s, v) ==
    [name |-> TextOf(s["current_passenger_name"]),
     phone |-> TextOf(s["current_passenger_phone"]),
     email |-> TextOf(s["current_passenger_email"]),
     seat |-> v]

WorkingPresent(s) ==
    /\ TruthyText(s["current_passenger_name"])
    /\ TruthyText(s["current_passenger_phone"])
    /\ TruthyText(s["current_passenger_email"])

\* C1: once travel_count was accepted, the accumulator holds
\* current_passenger_index - 1 records while the seat slot is unset and
\* expected_passengers records while the seat slot is populated.
C1_AccumulatorTracksIndex ==
    IsSet(slots["expected_passengers"]) =>
        IF IsSet(SeatSlot)
        THEN Len(Accumulator) = Val(slots["expected_passengers"])
        ELSE Len(Accumulator) = Val(slots["current_passenger_index"]) - 1

\* A decimal integer n >= 1, as text (surrounding whitespace allowed).
IsCount(value) ==
    /\ strip(value) # <<>>
    /\ IsDigits(strip(value))
    /\ IntOf(strip(value)) >= 1

LoopInitPatch(n) ==
    ("travel_count" :> Some(n)) @@ ("expected_passengers" :> Some(n))
    @@ ("current_passenger_index" :> Some(1))
    @@ ("passengers" :> Some(json_dumps(<<>>)))
    @@ ClearWorking

\* C2: validate_travel_count answers a decimal integer n >= 1 with the patch
\* that starts the loop for n passengers, and any other value with the patch
\* {travel_count: unset} alone.
C2_TravelCountStartsLoop ==
    last.op = "validate_travel_count" =>
        /\ ~last.fault
        /\ last.patch = IF IsCount(last.value)
                        THEN LoopInitPatch(IntOf(strip(last.value)))
                        ELSE "travel_count" :> None

\* travel_count was accepted: the loop has its index i and its count N.
LoopRunning(s) ==
    IsSet(s["current_passenger_index"]) /\ IsSet(s["expected_passengers"])

\* A valid seat value is validated (the step's call, read in the next state).
SeatAccepted ==
    /\ last'.op = "validate_current_passenger_seat_preference"
    /\ strip(lower(last'.value)) \in SEATS

SeatOf(value) == strip(lower(value))

SinglePlace(value) == ~_parse_from_to(value).found

\* The answer is a route pair of two supported places that are the same.
SamePair(value) ==
    LET r == _parse_from_to(value)
    IN  r.found /\ validate_country(r.o) /\ validate_country(r.d) /\ r.o = r.d

RouteEndsDiffer(s) ==
    (IsSet(s["origin"]) /\ IsSet(s["destination"])) =>
        title(strip(Val(s["origin"]))) # title(strip(Val(s["destination"])))

\* The answer to `field` names the place the slot `other` already holds.
NamesOther(value, s, other) ==
    /\ SinglePlace(value)
    /\ validate_country(value)
    /\ IsSet(s[other])
    /\ title(strip(value)) = title(strip(Val(s[other])))

\* C5: after every origin or destination call, origin and destination, when
\* both set, differ after normalization; an answer that would make them
\* equal is rejected with the patch clearing the validated field alone.
C5_OriginDestinationDiffer ==
    [][/\ RouteEndsDiffer(slots')
       /\ (last'.op = "validate_origin"
             /\ (SamePair(last'.value) \/ NamesOther(last'.value, slots, "destination")))
          => last'.patch = ("origin" :> None)
       /\ (last'.op = "validate_destination"
             /\ (SamePair(last'.value) \/ NamesOther(last'.value, slots, "origin")))
          => last'.patch = ("destination" :> None)]_vars

C5_Witness ==
    /\ last.op = "validate_destination"
    /\ last.msg = [kind |-> "same_destination"]
    /\ last.value = <<" ", "SEOUL", " ">>
    /\ slots["origin"] = Some(<<"Seoul">>)
    /\ slots["destination"] = None

\* ------------------------------------------------------------------- dates

DateOfText(v) == strptime(v)

DatesInOrder(s) ==
    (IsSet(s["travel_date"]) /\ IsSet(s["return_date"])) =>
        ~DateLt(DateOfText(Val(s["return_date"])), DateOfText(Val(s["travel_date"])))

\* A text of the exact shape DD/MM/YYYY that names a calendar date.
IsCalendarDate(v) ==
    /\ Len(v) = 10
    /\ \A i \in {1, 2, 4, 5, 7, 8, 9, 10} : v[i] \in DecimalDigits
    /\ v[3] = "/" /\ v[6] = "/"
    /\ ValidDate(IntOf(SubSeq(v, 7, 10)), IntOf(SubSeq(v, 4, 5)), IntOf(SubSeq(v, 1, 2)))

\* C6: after every travel_date or return_date call, in any order, a return
\* date that is set is on or after the travel date that is set; and
\* validate_return_date rejects a return date before the collected travel
\* date and accepts one equal to it.
C6_ReturnNotBeforeTravel ==
    [][/\ DatesInOrder(slots')
       /\ (/\ last'.op = "validate_return_date"
           /\ IsCalendarDate(last'.value)
           /\ IsSet(slots["travel_date"]))
          => IF DateLt(DateOfText(last'.value), DateOfText(Val(slots["travel_date"])))
             THEN last'.patch = ("return_date" :> None)
             ELSE (/\ DateOfText(last'.value) = DateOfText(Val(slots["travel_date"]))
                   /\ ~DateLt(DateOfText(last'.value), utcnow_date(clock)))
                    => last'.patch = ("return_date" :> Some(last'.value))]_vars

Today == utcnow_date(clock)

\* C7: validate_travel_date accepts exactly the texts of shape DD/MM/YYYY
\* that name a calendar date not before today, and stores the text as
\* given; every other value gets the patch {travel_date: unset}.
C7_TravelDateAccepted ==
    last.op = "validate_travel_date" =>
        IF IsCalendarDate(last.value) /\ ~DateLt(DateOfText(last.value), Today)
        THEN /\ "travel_date" \in DOMAIN last.patch
             /\ last.patch["travel_date"] = Some(last.value)
        ELSE last.patch = ("travel_date" :> None)

C7_Witness ==
    /\ last.op = "validate_travel_date"
    /\ clock = 1
    /\ last.value = DdMmYyyy(Today)
    /\ slots["travel_date"] = Some(DdMmYyyy(Today))

\* C8: for an accepted travel date, without both origin and destination the
\* patch is travel_date alone and no lookup is made; with both, the lookup
\* is made and the patch is travel_date with no_flights = true when it
\* answered no rows, and with no_flights = false plus the offer list when
\* it answered rows.
C8_LookupOnlyWithRoute ==
    (last.op = "validate_travel_date" /\ last.patch # ("travel_date" :> None)) =>
        IF ~(IsSet(slots["origin"]) /\ IsSet(slots["destination"]))
        THEN /\ last.patch = ("travel_date" :> Some(last.value))
             /\ ~last.looked
        ELSE /\ last.looked
             /\ IF last.rows = <<>>
                THEN /\ last.patch = ("travel_date" :> Some(last.value))
                                     @@ ("no_flights" :> Some(TRUE))
                     /\ last.msg = NoMsg
                ELSE /\ last.patch = ("travel_date" :> Some(last.value))
                                     @@ ("no_flights" :> Some(FALSE))
                     /\ last.msg.kind = "flights"
                     /\ last.msg.rows = last.rows

C8_Witness ==
    /\ last.op = "validate_travel_date"
    /\ last.looked
    /\ Len(last.rows) = 2
    /\ slots["no_flights"] = Some(FALSE)
    /\ slots["travel_date"] = Some(last.value)

\* C9: the required-field policy answers the empty list when no_flights is
\* true and the declared list as given when no_flights is unset or false,
\* on the snapshot as it is when asked.
C9_RequiredSlotsPolicy ==
    last.op = "required_slots" =>
        last.ret = IF slots["no_flights"] = Some(TRUE) THEN <<>> ELSE last.value

C9_Witness ==
    /\ last.op = "required_slots"
    /\ slots["no_flights"] = Some(TRUE)
    /\ slots["return_date"] = None
    /\ Len(last.value) = 11
    /\ last.ret = <<>>

\* C10: submit with no_flights = true leaves the booking store as it is,
\* utters the apology naming origin, destination and travel date, and
\* returns the restart event alone, which resets the snapshot.
C10_NoFlightsSubmitPersistsNothing ==
    [][(last'.op = "action_submit_booking" /\ slots["no_flights"] = Some(TRUE)) =>
        /\ store' = store
        /\ last'.msg = [kind |-> "apology",
                        origin |-> TextOrNA(slots, "origin"),
                        destination |-> TextOrNA(slots, "destination"),
                        travel_date |-> TextOrNA(slots, "travel_date")]
        /\ last'.events = <<"Restarted">>
        /\ slots' = AllUnset]_vars

C10_Witness ==
    /\ last.op = "action_submit_booking"
    /\ last.events = <<"Restarted">>
    /\ last.msg.kind = "apology"
    /\ last.msg.origin = <<"Dhaka">>
    /\ store = EmptyStore
    /\ slots = AllUnset

\* C11: a submit with no_flights not true adds one booking row carrying the
\* snapshot's origin, destination, dates, class, primary contact and traveler
\* count, and one passenger row per accumulator entry, each referencing the
\* new booking.
C11_SubmitPersistsBooking ==
    [][(last'.op = "action_submit_booking" /\ slots["no_flights"] # Some(TRUE)) =>
        /\ HasTable(store'.tables, "bookings")
        /\ HasTable(store'.tables, "passengers")
        /\ Len(store'.bookings) = Len(store.bookings) + 1
        /\ store'.bookings[Len(store'.bookings)].row = BookingRow(slots)
        /\ Len(store'.passengers) =
               Len(store.passengers) + Len(LoadPassengers(slots))
        /\ \A i \in (Len(store.passengers) + 1)..Len(store'.passengers) :
               store'.passengers[i].booking_id =
                   store'.bookings[Len(store'.bookings)].id]_vars

\* C12: a submit with no_flights not true leaves every slot of the flow
\* unset, whether or not the booking was written.
C12_SubmitResetsSlots ==
    [][(last'.op = "action_submit_booking" /\ slots["no_flights"] # Some(TRUE)) =>
        /\ DOMAIN last'.patch = SlotNames
        /\ \A k \in SlotNames : last'.patch[k] = None
        /\ slots' = AllUnset]_vars

C12_Witness ==
    /\ last.op = "action_submit_booking"
    /\ last.msg.kind = "confirmed"
    /\ last.msg.row.travel_count = 2
    /\ Len(last.msg.passengers) = 2
    /\ slots = AllUnset

\* C13: when the write of a submit fails, the confirmation is still uttered
\* with the warning in place of the saved line, the slots are reset, nothing
\* is written a second time and no fault leaves the action.
C13_FailedWriteIsFolded ==
    [][(/\ last'.op = "action_submit_booking"
        /\ slots["no_flights"] # Some(TRUE)
        /\ _save_booking(store, BookingRow(slots)).raised) =>
        /\ last'.fault = FALSE
        /\ last'.msg.kind = "confirmed"
        /\ last'.msg.saved = FALSE
        /\ last'.msg.row = BookingRow(slots)
        /\ last'.msg.passengers = LoadPassengers(slots)
        /\ last'.events = <<"SlotSet">>
        /\ slots' = AllUnset
        /\ store'.bookings = store.bookings
        /\ store'.passengers = store.passengers]_vars

C13_Witness ==
    /\ last.op = "action_submit_booking"
    /\ last.msg.kind = "confirmed"
    /\ last.msg.saved = FALSE
    /\ Len(last.msg.passengers) = 1
    /\ last.events = <<"SlotSet">>
    /\ store.tables = <<"bookings", "passengers">>
    /\ store.bookings = <<>>

\* The names of a schema, each as often as the schema holds it.
TableCount(tables, name) == Cardinality({i \in 1..Len(tables) : tables[i] = name})

\* C14: _ensure_db on any database, empty or already set up and filled,
\* leaves both structures present exactly once, keeps the structures and
\* the rows it found, and a further call changes nothing.
C14_EnsureDbIdempotent ==
    [][last'.op = "_ensure_db" =>
        /\ last'.fault = FALSE
        /\ TableCount(store'.tables, "bookings") = 1
        /\ TableCount(store'.tables, "passengers") = 1
        /\ SubSeq(store'.tables, 1, Len(store.tables)) = store.tables
        /\ store'.bookings = store.bookings
        /\ store'.passengers = store.passengers
        /\ _ensure_db(store') = store']_vars

C14_Witness ==
    /\ last.op = "_ensure_db"
    /\ last.ret = <<"passengers", "bookings">>
    /\ store.tables = last.ret
    /\ Len(store.bookings) = 2
    /\ Len(store.passengers) = 1

\* The codes a place stands for: its primary code and the nearby alternates.
CandidateCodes(place) ==
    {_city_to_iata(place)} \cup
    {NEARBY_BY_IATA(_city_to_iata(place))[k] :
        k \in 1..Len(NEARBY_BY_IATA(_city_to_iata(place)))}

\* The flight rows of a date between two places.
MatchingFlights(o, d, text) ==
    {i \in 1..Len(FlightRows) :
        /\ FlightRows[i].travel_date = isoformat(DateOfText(text))
        /\ FlightRows[i].origin \in CandidateCodes(o)
        /\ FlightRows[i].destination \in CandidateCodes(d)}

\* C15: a lookup the flight store answers returns the rows whose date is
\* the asked date and whose origin and destination codes are among the
\* candidates of the two places (primary code or nearby alternate), up to
\* the limit; so the flights to a nearby alternate are offered when the
\* primary code has none.
C15_LookupMatchesCandidates ==
    (last.op = "validate_travel_date" /\ last.looked /\ last.dbUp) =>
        LET hits == MatchingFlights(Val(slots["origin"]), Val(slots["destination"]),
                                    last.value)
        IN  /\ {last.rows[k] : k \in 1..Len(last.rows)} \subseteq
                   {Selected(FlightRows[i]) : i \in hits}
            /\ Cardinality({last.rows[k] : k \in 1..Len(last.rows)}) = Len(last.rows)
            /\ Len(last.rows) =
                   IF Cardinality(hits) <= LIMIT THEN Cardinality(hits) ELSE LIMIT

C15_Witness ==
    /\ last.op = "validate_travel_date"
    /\ last.looked
    /\ last.dbUp
    /\ slots["origin"] = Some(<<"Dhaka">>)
    /\ slots["destination"] = Some(<<"Brisbane">>)
    /\ \A i \in 1..Len(FlightRows) : FlightRows[i].destination # <<"BNE">>
    /\ last.rows = << <<"QF200", None, None>> >>
    /\ slots["no_flights"] = Some(FALSE)

FromWords == {"from", "FROM"}

ToWords == {"to", "TO"}

PlaceWords == {"dhaka", "Seoul"}

RoutePair(a, b) == [found |-> TRUE, o |-> <<Title(a)>>, d |-> <<Title(b)>>]

\* C16: _parse_from_to answers "from A to B" and the bare "A to B", in any
\* case of the keywords and with blanks around, with the pair (A, B) in
\* title case; the "from" pattern goes first, so "from" is never part of A;
\* the empty text and a text without the word "to" give (None, None).
C16_ParseRoute ==
    last.op = "_parse_from_to" =>
        /\ \A f \in FromWords, t \in ToWords, a \in PlaceWords, b \in PlaceWords :
               last.value = <<f, a, t, b>> => last.ret = RoutePair(a, b)
        /\ \A t \in ToWords, a \in PlaceWords, b \in PlaceWords :
               last.value \in {<<a, t, b>>, <<" ", a, t, b>>, <<a, t, b, " ">>}
                   => last.ret = RoutePair(a, b)
        /\ (\A k \in 1..Len(last.value) : last.value[k] \notin ToWords)
               => last.ret = NoRoute

C16_Witness ==
    /\ last.op = "_parse_from_to"
    /\ last.value = <<"FROM", "dhaka", "TO", "Seoul">>
    /\ last.ret = [found |-> TRUE, o |-> <<"Dhaka">>, d |-> <<"Seoul">>]

\* The field each validator is asked about.
FieldOf ==
    [op \in {"validate_travel_count", "validate_current_passenger_name",
             "validate_current_passenger_phone", "validate_current_passenger_email",
             "validate_current_passenger_seat_preference"} |->
        CASE op = "validate_travel_count" -> "travel_count"
          [] op = "validate_current_passenger_name" -> "current_passenger_name"
          [] op = "validate_current_passenger_phone" -> "current_passenger_phone"
          [] op = "validate_current_passenger_email" -> "current_passenger_email"
          [] op = "validate_current_passenger_seat_preference" ->
                "current_passenger_seat_preference"]

\* C17: every validator call ends without a fault, either with a patch that
\* sets its field or moves the loop on, or with a message and the patch
\* that clears its field alone.
C17_ValidatorsRecoverLocally ==
    last.op \in DOMAIN FieldOf =>
        /\ ~last.fault
        /\ FieldOf[last.op] \in DOMAIN last.patch
        /\ (last.patch[FieldOf[last.op]] = None /\ "passengers" \notin DOMAIN last.patch)
               => (last.msg # NoMsg /\ DOMAIN last.patch = {FieldOf[last.op]})

\* The answer is a route pair of two supported places that differ.
GoodPair(value) ==
    LET r == _parse_from_to(value)
    IN  r.found /\ validate_country(r.o) /\ validate_country(r.d) /\ r.o # r.d

\* C18: a route pair of two supported, different places given to
\* validate_origin or validate_destination patches origin and destination
\* together with the pair, whatever the two slots held.
C18_RoutePairPatchesBoth ==
    [][(last'.op \in {"validate_origin", "validate_destination"}
        /\ GoodPair(last'.value)) =>
        /\ last'.patch =
               ("origin" :> Some(_parse_from_to(last'.value).o))
               @@ ("destination" :> Some(_parse_from_to(last'.value).d))
        /\ slots' = [slots EXCEPT
                        !["origin"] = Some(_parse_from_to(last'.value).o),
                        !["destination"] = Some(_parse_from_to(last'.value).d)]]_vars

C18_Witness ==
    /\ last.op = "validate_destination"
    /\ last.value = <<"Seoul", "to", "Brisbane">>
    /\ "origin" \in DOMAIN last.patch
    /\ slots["origin"] = Some(<<"Seoul">>)
    /\ slots["destination"] = Some(<<"Brisbane">>)

\* C19: without a route pair of two supported, different places,
\* validate_destination takes the whole answer as one place: accepted when
\* it is supported and not the origin already set, and otherwise rejected
\* with destination cleared; so "X to B" with X unsupported is rejected.
C19_DestinationAsSinglePlace ==
    (last.op = "validate_destination" /\ ~GoodPair(last.value)) =>
        last.patch =
            IF /\ validate_country(last.value)
               /\ ~(/\ TruthyText(slots["origin"])
                     /\ title(strip(last.value)) = title(strip(Val(slots["origin"]))))
            THEN "destination" :> Some(title(strip(last.value)))
            ELSE "destination" :> None

\* C20: a valid seat adds the record of the working fields to the
\* accumulator when name, phone and email are all set and adds nothing
\* otherwise; either way the index moves on and the working fields are
\* cleared when i < N, and the seat stays set with the index as it was
\* when i = N.
C20_CompletionStepAppends ==
    [][SeatAccepted =>
        /\ LoadPassengers(slots') =
               IF WorkingPresent(slots)
               THEN Append(Accumulator, CurrentPassenger(slots, SeatOf(last'.value)))
               ELSE Accumulator
        /\ IF IdxOr1(slots) < ExpectedOr1(slots)
           THEN /\ slots'["current_passenger_index"] = Some(IdxOr1(slots) + 1)
                /\ \A k \in WorkingFields : slots'[k] = None
           ELSE /\ slots'["current_passenger_seat_preference"] =
                       Some(SeatOf(last'.value))
                /\ slots'["current_passenger_index"] =
                       slots["current_passenger_index"]]_vars

C20_Witness ==
    /\ last.op = "validate_current_passenger_seat_preference"
    /\ slots["expected_passengers"] = Some(2)
    /\ slots["current_passenger_index"] = Some(2)
    /\ SeatSlot = Some(<<"window">>)
    /\ ~WorkingPresent(slots)
    /\ Len(Accumulator) = 1
    /\ Accumulator[1].name = <<"Ann">>

PassengerValidators ==
    {"validate_current_passenger_name", "validate_current_passenger_phone",
     "validate_current_passenger_email",
     "validate_current_passenger_seat_preference"}

\* C21: a call of a passenger-field validator keeps the records the
\* accumulator holds, in their order, and adds at most one record, at the
\* end.
C21_RecordsImmutable ==
    [][last'.op \in PassengerValidators =>
        /\ Len(LoadPassengers(slots')) \in {Len(Accumulator), Len(Accumulator) + 1}
        /\ SubSeq(LoadPassengers(slots'), 1, Len(Accumulator)) = Accumulator]_vars

C21_Witness ==
    /\ last.op = "validate_current_passenger_seat_preference"
    /\ Len(Accumulator) = 2
    /\ Accumulator[1].seat = <<"window">>
    /\ Accumulator[2].seat = <<"aisle">>
    /\ Accumulator[1].phone # Accumulator[2].phone

\* The connection a function holds between its connect and its close.
Window(pc) ==
    CASE pc \in {"e_create", "e_close"} -> {"_ensure_db"}
      [] pc \in {"b_insert", "b_close"} -> {"_save_booking"}
      [] pc \in {"p_insert", "p_close"} -> {"_save_passengers"}
      [] pc \in {"q_execute", "q_close"} -> {"_query_flights_for_date"}
      [] OTHER -> {}

\* C22: a conversation holds no connection but the one of the storage
\* function it is in, between that function's connect and close; once the
\* function returned or raised, whatever failed, nothing it opened is open.
C22_ConnectionsReleased ==
    \A c \in Conversations :
        /\ conv[c].conn \subseteq Window(conv[c].pc)
        /\ conv[c].pc = "idle" => conv[c].conn = {}

C22_Witness ==
    /\ conv[1].op = "_save_booking"
    /\ conv[1].pc = "idle"
    /\ conv[1].result = "raised"
    /\ conv[1].conn = {}
    /\ HasTable(store.tables, "bookings")
    /\ conv[2].op = "_save_passengers"
    /\ conv[2].result = "raised"
    /\ conv[2].env
    /\ conv[2].conn = {}

\* An offer with a known departure time goes before one that leaves later
\* and before one whose departure time is unknown.
OfferBefore(a, b) ==
    IsSet(a[2]) /\ (~IsSet(b[2]) \/ Val(a[2]) < Val(b[2]))

\* C23: a lookup the flight store answers returns at most 5 offers, by
\* departure time ascending with unknown departure times last; a match it
\* leaves out goes before none of the offers returned.
C23_OffersOrderedAndCapped ==
    (last.op = "validate_travel_date" /\ last.looked /\ last.dbUp) =>
        /\ Len(last.rows) <= 5
        /\ \A i \in 1..Len(last.rows), j \in 1..Len(last.rows) :
               i < j => ~OfferBefore(last.rows[j], last.rows[i])
        /\ \A h \in MatchingFlights(Val(slots["origin"]), Val(slots["destination"]),
                                    last.value) :
               \/ \E k \in 1..Len(last.rows) : last.rows[k] = Selected(FlightRows[h])
               \/ /\ Len(last.rows) = 5
                  /\ \A k \in 1..Len(last.rows) :
                         ~OfferBefore(Selected(FlightRows[h]), last.rows[k])

C23_Witness ==
    /\ last.op = "validate_travel_date"
    /\ last.looked
    /\ last.dbUp
    /\ Cardinality(MatchingFlights(Val(slots["origin"]), Val(slots["destination"]),
                                   last.value)) = 7
    /\ last.rows = << <<"KE107", Some(600), Some(1200)>>,
                      <<"KE103", Some(700), Some(1300)>>,
                      <<"KE101", Some(900), Some(1500)>>,
                      <<"KE113", Some(1000), Some(1600)>>,
                      <<"KE109", Some(1100), None>> >>

\* A text a/b/yyyy of one or two digits, one or two digits, four digits.
IsSlashed(v) ==
    /\ Cardinality({i \in 1..Len(v) : v[i] = "/"}) = 2
    /\ \E p \in 2..3, q \in 4..6 :
          /\ v[p] = "/" /\ v[q] = "/" /\ q - p \in 2..3 /\ Len(v) = q + 4
          /\ \A i \in 1..Len(v) : i \notin {p, q} => v[i] \in DecimalDigits

\* The day and month the claim picks from a, b and the preference; <<0, 0>>
\* when both exceed 12.
PickDayMonth(a, b, day_first) ==
    IF a > 12 /\ b > 12 THEN <<0, 0>>
    ELSE IF a > 12 THEN <<a, b>>
    ELSE IF b > 12 THEN <<b, a>>
    ELSE IF day_first THEN <<a, b>> ELSE <<b, a>>

\* C24: iso_date on a/b/yyyy takes the component above 12 as the day when
\* exactly one is above 12, lets the preference decide when neither is,
\* and answers the ISO date YYYY-MM-DD of the chosen year, month and day,
\* or no value when these are no calendar date.
C24_SlashedDateNormalized ==
    (last.op = "iso_date" /\ IsSlashed(last.value.s)) =>
        LET dt == SlashedDate(last.value.s)
            dm == PickDayMonth(dt.d, dt.m, last.value.day_first)
        IN  last.ret = IF ValidDate(dt.y, dm[2], dm[1])
                       THEN Some(isoformat(Date(dt.y, dm[2], dm[1])))
                       ELSE None

\* The rows of the passengers table that reference booking id.
PassengerRowsOf(id) ==
    SelectSeq(store.passengers, LAMBDA r : r.booking_id = id)

\* The submit of conversation c ended and neither the database nor the
\* file system failed under it.
SubmitWentThrough(c) ==
    /\ conv[c].op = "action_submit_booking"
    /\ conv[c].pc = "s_done"
    /\ ~conv[c].env

\* C25: with conversations submitting side by side, in any interleaving
\* of their storage steps, a submit that went through has written exactly
\* one booking row, its own, and the passenger rows that reference this
\* booking are the passengers of the same submit, never another's.
C25_ConcurrentSubmitsKeepTheirRows ==
    \A c \in Conversations :
        SubmitWentThrough(c) =>
            /\ conv[c].booking_id \in 1..Len(store.bookings)
            /\ store.bookings[conv[c].booking_id].row = ConversationRow(c)
            /\ Len(PassengerRowsOf(conv[c].booking_id)) = Len(conv[c].passengers)
            /\ \A i \in 1..Len(conv[c].passengers) :
                  PassengerRowsOf(conv[c].booking_id)[i].name
                      = conv[c].passengers[i].name

\* The step accepts travel_count or submits: the loop state is set anew.
LoopRestarts ==
    \/ last'.op = "action_submit_booking"
    \/ /\ last'.op = "validate_travel_count"
       /\ "expected_passengers" \in DOMAIN last'.patch

\* C26: once travel_count was accepted with N, whatever the passenger
\* validators are given, 1 <= current_passenger_index <= expected_passengers,
\* and until travel_count is accepted again or the booking is submitted
\* expected_passengers stays N and the index never decreases.
C26_IndexWithinCount ==
    [][/\ LoopRunning(slots') =>
            /\ 1 <= Val(slots'["current_passenger_index"])
            /\ Val(slots'["current_passenger_index"])
                   <= Val(slots'["expected_passengers"])
       /\ (LoopRunning(slots) /\ ~LoopRestarts) =>
            /\ LoopRunning(slots')
            /\ slots'["expected_passengers"] = slots["expected_passengers"]
            /\ Val(slots'["current_passenger_index"])
                   >= Val(slots["current_passenger_index"])]_vars

C26_Witness ==
    /\ last.op = "validate_current_passenger_seat_preference"
    /\ last.msg = NoMsg
    /\ slots["expected_passengers"] = Some(1)
    /\ slots["current_passenger_index"] = Some(1)
    /\ IsSet(SeatSlot)
    /\ Len(Accumulator) > Val(slots["expected_passengers"])

\* The field each validator of the form is asked about.
ValidatedField ==
    [op \in {"validate_origin", "validate_destination", "validate_travel_date",
             "validate_return_date", "validate_class_selection",
             "validate_passenger_name"} |->
        CASE op = "validate_origin" -> "origin"
          [] op = "validate_destination" -> "destination"
          [] op = "validate_travel_date" -> "travel_date"
          [] op = "validate_return_date" -> "return_date"
          [] op = "validate_class_selection" -> "class_selection"
          [] op = "validate_passenger_name" -> "passenger_name"]
    @@ FieldOf

\* The messages that turn an answer down.
RejectionKinds ==
    {"unsupported_origin", "unsupported_destination", "same_places", "same_origin",
     "same_destination", "date_format", "date_invalid", "date_past",
     "return_past", "return_before_travel", "ask_class", "ask_main_name",
     "invalid_travel_count", "ask_name", "ask_phone", "ask_email", "ask_seat"}

\* The step is a validator call that turned its answer down.
Rejects ==
    /\ last'.op \in DOMAIN ValidatedField
    /\ last'.msg.kind \in RejectionKinds

\* C27: a validator that rejects its answer returns a patch of exactly one
\* key, its own field, unset; every other slot stays as it was (the
\* accumulator, the index and no_flights among them).
C27_RejectionTouchesOneField ==
    [][Rejects =>
        /\ last'.patch = (ValidatedField[last'.op] :> None)
        /\ slots' = [slots EXCEPT ![ValidatedField[last'.op]] = None]]_vars

C27_Witness ==
    /\ last.op = "validate_current_passenger_seat_preference"
    /\ last.msg.kind = "ask_seat"
    /\ SeatSlot = None
    /\ slots["current_passenger_index"] = Some(2)
    /\ Len(Accumulator) = 1
    /\ slots["no_flights"] = Some(FALSE)
    /\ WorkingPresent(slots)

\* The route is known: origin and destination are both set.
RouteKnown(s) == TruthyText(s["origin"]) /\ TruthyText(s["destination"])

\* C28: no_flights is written only by a validate_travel_date call that
\* accepts its date with origin and destination both set, and is cleared
\* only by submit; every other call leaves travel_date and no_flights as
\* they were, so that a change of route keeps the old no_flights, and a
\* date accepted before the route was known leaves no_flights unset.
C28_AvailabilityWrittenByDateOnly ==
    [][/\ last'.op = "validate_travel_date" =>
            /\ "no_flights" \in DOMAIN last'.patch
                   <=> (RouteKnown(slots) /\ slots'["travel_date"] = Some(last'.value)
                        /\ "travel_date" \in DOMAIN last'.patch)
            /\ "no_flights" \in DOMAIN last'.patch => IsSet(slots'["no_flights"])
            /\ "no_flights" \notin DOMAIN last'.patch =>
                   slots'["no_flights"] = slots["no_flights"]
       /\ last'.op = "action_submit_booking" => slots'["no_flights"] = None
       /\ last'.op \notin {"validate_travel_date", "action_submit_booking"} =>
            /\ slots'["travel_date"] = slots["travel_date"]
            /\ slots'["no_flights"] = slots["no_flights"]]_vars

\* The destination was changed after flights were found: the route now
\* has no flight on the date, and no_flights still says there are some.
C28_Witness ==
    /\ last.op = "validate_destination"
    /\ slots["origin"] = Some(<<"Dhaka">>)
    /\ slots["destination"] = Some(<<"Brisbane">>)
    /\ slots["travel_date"] = Some(DdMmYyyy(Date(2025, 2, 28)))
    /\ slots["no_flights"] = Some(FALSE)
    /\ _query_flights_for_date(<<"Dhaka">>, <<"Brisbane">>,
                               DdMmYyyy(Date(2025, 2, 28)), TRUE) = <<>>

\* C29: when the flight store fails during the lookup, the lookup answers
\* with no rows, and validate_travel_date ends without a fault with the
\* patch of a date that has no flights: travel_date set and no_flights
\* true.
C29_LookupFailureIsNoAvailability ==
    (last.op = "validate_travel_date" /\ last.looked /\ ~last.dbUp) =>
        /\ ~last.fault
        /\ last.rows = <<>>
        /\ last.patch = ("travel_date" :> Some(last.value))
                            @@ ("no_flights" :> Some(TRUE))
        /\ last.msg = NoMsg
        /\ slots["no_flights"] = Some(TRUE)

\* The store failed on a route and date that have flights.
C29_Witness ==
    /\ last.op = "validate_travel_date"
    /\ last.looked
    /\ ~last.dbUp
    /\ slots["no_flights"] = Some(TRUE)
    /\ slots["travel_date"] = Some(DdMmYyyy(Date(2025, 2, 28)))
    /\ _query_flights_for_date(Val(slots["origin"]), Val(slots["destination"]),
                               Val(slots["travel_date"]), TRUE) # <<>>

\* The loop is over: the seat is set for the last passenger.
AtCompletion ==
    /\ LoopRunning(slots)
    /\ IsSet(SeatSlot)
    /\ slots["current_passenger_index"] = slots["expected_passengers"]

\* The accumulator holds the N passengers in the order they were entered.
AllPassengersInOrder ==
    /\ Len(Accumulator) = Val(slots["expected_passengers"])
    /\ \A i \in 1..Len(Accumulator) : Accumulator[i].name = ContactOf(i)

\* C30: once travel_count was accepted with N, a user who eventually
\* gives a valid name, phone, email and seat for each passenger brings the
\* loop to completion (seat set, index N, the N records in entry order);
\* the loop is at completion exactly when N seat values were accepted,
\* never with fewer.
C30_LoopCompletes ==
    /\ LoopRunning(slots) ~> (AtCompletion /\ AllPassengersInOrder)
    /\ [](LoopRunning(slots) =>
            /\ last.ret <= Val(slots["expected_passengers"])
            /\ AtCompletion <=> last.ret = Val(slots["expected_passengers"]))

C30_Witness ==
    /\ AtCompletion
    /\ AllPassengersInOrder
    /\ slots["expected_passengers"] = Some(2)
    /\ last.ret = 2
    /\ Accumulator[2].name = <<"Bob">>

====
